---- MODULE Spec2Model ----
(***************************************************************************)
(* Model of the conversational document-refinement engine of               *)
(* AI-Writing-MPV: the resilient call wrapper (callWithRetry), file        *)
(* extraction (processFile and its worker), the generation orchestrator    *)
(* (generateReport) and the dialogue session (ReportAssistant).            *)
(*                                                                         *)
(* Text is modelled as a sequence of string pieces: a template literal is  *)
(* the concatenation of its pieces, String.includes(p) is the presence of  *)
(* the piece p, and a string is falsy exactly when it is the empty         *)
(* sequence.  Pieces that are Chinese in the source are written in pinyin  *)
(* here; the comment next to each gives the source text.                   *)
(***************************************************************************)
EXTENDS Integers, Sequences, FiniteSets, TLC

VARIABLES
    cw,               \* the running callWithRetry activation
    ext,              \* Promise.all(files.map(processFile)): one slot per file
    gen,              \* the running generateReport activation
    chat,             \* the ReportAssistant: its Chat handle and the running sendMessage
    generatedReport,  \* App state written by the onStreamUpdate callback of handleGenerate
    app               \* the rest of App's state and the calls App has in flight

vars == <<cw, ext, gen, chat, generatedReport, app>>

-----------------------------------------------------------------------------
(* Bounds of the model *)

MaxRetries == 3     \* largest `retries` argument explored for callWithRetry alone
MaxFiles == 2       \* largest number of files in one request
MaxChunks == 3      \* largest number of chunks in one response stream

(* Program constants *)

DefaultRetries == 3        \* retries: number = 3
InitialDelay == 3000       \* initialDelay: number = 3000

-----------------------------------------------------------------------------
(* Text helpers *)

Includes(text, piece) == \E i \in DOMAIN text : text[i] = piece

IsPrefix(s, t) == Len(s) <= Len(t) /\ SubSeq(t, 1, Len(s)) = s

RECURSIVE Pow2(_)
Pow2(k) == IF k = 0 THEN 1 ELSE 2 * Pow2(k - 1)

-----------------------------------------------------------------------------
(* Errors.  An error object carries the fields callWithRetry inspects:     *)
(* error.status, error.code, error.error.code, error.error.status,         *)
(* error.message, error.error.message and error.error.details[0].reason.   *)
(* A number field is 0 and a text field is empty when the field is absent  *)
(* (both are falsy in the source).  oid is the identity of the object: the *)
(* k-th invocation of the operation throws the object k, and an object     *)
(* made by `new Error(..)` inside the service has oid 0.                   *)

MkError(status, code, ecode, estatus, message, emessage, reason) ==
    [oid |-> 0, status |-> status, code |-> code, ecode |-> ecode,
     estatus |-> estatus, message |-> message, emessage |-> emessage,
     reason |-> reason]

NewError(message) == MkError(0, 0, 0, "", message, <<>>, "")

NoError == NewError(<<>>)

\* "API 金鑰無效 (Invalid API Key)。請檢查您的部署設定與環境變數 (API_KEY)。"
InvalidKeyMessage ==
    <<"API jinyao wuxiao", " (Invalid API Key). qing jiancha nin de bushu sheding yu huanjing bianshu (API_KEY).">>

\* "系統目前使用量較大或已達額度上限 (Quota Exceeded)，請稍後再試。"
QuotaMessage ==
    <<"xitong", "muqian shiyongliang jiaoda huo yi da edu shangxian (", "Quota",
      " Exceeded), qing shaohou zai shi.">>

MaxRetriesMessage == <<"Max retries exceeded for Gemini API call.">>

StatusOf(e) ==
    IF e.status # 0 THEN e.status ELSE IF e.code # 0 THEN e.code ELSE e.ecode

ErrorCodeStr(e) == e.estatus

MessageOf(e) == IF e.message # <<>> THEN e.message ELSE e.emessage

ReasonOf(e) == e.reason

IsInvalidKey(e) ==
    /\ StatusOf(e) = 400
    /\ \/ Includes(MessageOf(e), "API key not valid")
       \/ ReasonOf(e) = "API_KEY_INVALID"

IsRetryable(e) ==
    \/ StatusOf(e) = 429
    \/ StatusOf(e) = 503
    \/ StatusOf(e) = 500
    \/ ErrorCodeStr(e) = "RESOURCE_EXHAUSTED"
    \/ Includes(MessageOf(e), "429")
    \/ Includes(MessageOf(e), "Quota")
    \/ Includes(MessageOf(e), "overloaded")
    \/ Includes(MessageOf(e), "RESOURCE_EXHAUSTED")

(* The errors a remote operation is made to throw. *)
RetryableErrors ==
    { MkError(429, 0, 0, "", <<"Too Many Requests">>, <<>>, ""),
      MkError(0, 503, 0, "", <<"The model is ", "overloaded">>, <<>>, ""),
      MkError(0, 0, 500, "INTERNAL", <<>>, <<"Internal error">>, ""),
      MkError(0, 0, 0, "RESOURCE_EXHAUSTED", <<>>, <<>>, ""),
      MkError(0, 0, 0, "", <<"got status ", "429">>, <<>>, ""),
      MkError(0, 0, 0, "", <<>>, <<"Quota", " exceeded for metric">>, "") }

InvalidKeyErrors ==
    { MkError(400, 0, 0, "", <<"API key not valid", ". Please pass a valid API key.">>, <<>>, ""),
      MkError(0, 0, 400, "INVALID_ARGUMENT", <<>>, <<"Quota", " project not found">>, "API_KEY_INVALID"),
      MkError(0, 400, 0, "RESOURCE_EXHAUSTED", <<"API key not valid", " 429">>, <<>>, "") }

OtherErrors ==
    { MkError(400, 0, 0, "INVALID_ARGUMENT", <<"Bad Request">>, <<>>, ""),
      MkError(404, 0, 0, "", <<"API key not valid">>, <<>>, "API_KEY_INVALID"),
      MkError(0, 0, 0, "", <<"xitong", " error: fetch failed">>, <<>>, ""),
      MkError(0, 0, 0, "", <<>>, <<>>, "") }

ErrorSamples == RetryableErrors \cup InvalidKeyErrors \cup OtherErrors

-----------------------------------------------------------------------------
(* callWithRetry(fn, retries, initialDelay)                                *)
(*   pc: "idle" (no activation), "try" (about to invoke fn), "sleep"       *)
(*   (awaiting the backoff timer), "returned", "thrown".                   *)

CwIdle ==
    [pc |-> "idle", retries |-> 0, attempt |-> 0, waits |-> 0, delay |-> 0,
     result |-> "", error |-> NoError, calls |-> <<>>]

\* What one invocation of fn produced: a value, or a thrown error object.
Resolved(value) == [ok |-> TRUE, value |-> value, error |-> NoError]
Rejected(e) == [ok |-> FALSE, value |-> "", error |-> e]

\* while (attempt < retries) { ... }  throw new Error("Max retries exceeded ...")
CwLoop(c) ==
    IF c.attempt < c.retries
    THEN [c EXCEPT !.pc = "try"]
    ELSE [c EXCEPT !.pc = "thrown", !.error = NewError(MaxRetriesMessage)]

\* let attempt = 0;
CwBegin(retries) == CwLoop([CwIdle EXCEPT !.retries = retries])

\* return await fn();
CwReturn(c, value) == [c EXCEPT !.pc = "returned", !.result = value]

\* catch (error: any) { ... }
CwCatch_RetryAtLast(c, err) ==
    IF IsInvalidKey(err)
    THEN [c EXCEPT !.pc = "thrown", !.error = NewError(InvalidKeyMessage)]
    ELSE IF IsRetryable(err)
    THEN IF c.attempt < c.retries
         THEN [c EXCEPT !.pc = "sleep", !.waits = @ + 1,
                        !.delay = InitialDelay * Pow2(c.attempt)]
         ELSE [c EXCEPT !.pc = "thrown", !.error = NewError(QuotaMessage)]
    ELSE [c EXCEPT !.pc = "thrown", !.error = err]

CwCatch_RetryableFirst(c, err) ==
    IF IsRetryable(err)
    THEN IF c.attempt < c.retries - 1
         THEN [c EXCEPT !.pc = "sleep", !.waits = @ + 1,
                        !.delay = InitialDelay * Pow2(c.attempt)]
         ELSE [c EXCEPT !.pc = "thrown", !.error = NewError(QuotaMessage)]
    ELSE IF IsInvalidKey(err)
    THEN [c EXCEPT !.pc = "thrown", !.error = NewError(InvalidKeyMessage)]
    ELSE [c EXCEPT !.pc = "thrown", !.error = err]

CwCatch_Wraps(c, err) ==
    IF IsInvalidKey(err)
    THEN [c EXCEPT !.pc = "thrown", !.error = NewError(InvalidKeyMessage)]
    ELSE IF IsRetryable(err)
    THEN IF c.attempt < c.retries - 1
         THEN [c EXCEPT !.pc = "sleep", !.waits = @ + 1,
                        !.delay = InitialDelay * Pow2(c.attempt)]
         ELSE [c EXCEPT !.pc = "thrown", !.error = NewError(QuotaMessage)]
    ELSE [c EXCEPT !.pc = "thrown",
                   !.error = NewError(<<"Request failed: ">> \o MessageOf(err))]

CwCatch(c, err) ==
    IF IsInvalidKey(err)
    THEN [c EXCEPT !.pc = "thrown", !.error = NewError(InvalidKeyMessage)]
    ELSE IF IsRetryable(err)
    THEN IF c.attempt < c.retries - 1
         THEN [c EXCEPT !.pc = "sleep", !.waits = @ + 1,
                        !.delay = InitialDelay * Pow2(c.attempt)]
         ELSE [c EXCEPT !.pc = "thrown", !.error = NewError(QuotaMessage)]
    ELSE [c EXCEPT !.pc = "thrown", !.error = err]

\* One pass through the try block: fn is invoked and produces `outcome`.  The
\* object thrown by the k-th invocation gets the identity k.
CwInvoke(c, outcome) ==
    LET k == Len(c.calls) + 1
        o == IF outcome.ok THEN outcome
             ELSE [outcome EXCEPT !.error = [@ EXCEPT !.oid = k]]
        d == [c EXCEPT !.calls = Append(@, o)]
    IN  IF o.ok THEN CwReturn(d, o.value) ELSE CwCatch(d, o.error)

\* await new Promise(r => setTimeout(r, delay)); attempt++; continue;
CwWake_NoIncrement(c) == CwLoop(c)

CwWake(c) == CwLoop([c EXCEPT !.attempt = @ + 1])

Invocations(c) == Len(c.calls)

CwDone(c) == c.pc \in {"returned", "thrown"}

-----------------------------------------------------------------------------
(* Files.  name is file.name, suffix what name.endsWith(..) inspects, type *)
(* is file.type and major what type.startsWith("image/") and               *)
(* type.startsWith("text/") inspect; bytes stands for the file's content.  *)

MkFile(name, suffix, type, major, bytes) ==
    [name |-> name, suffix |-> suffix, type |-> type, major |-> major, bytes |-> bytes]

FilePdf  == MkFile("a.pdf", ".pdf", "application/pdf", "application", "%PDF")
FilePng  == MkFile("b.png", ".png", "image/png", "image", "PNG")
FileDocx == MkFile("c.docx", ".docx", "application/vnd.openxmlformats-officedocument.wordprocessingml.document", "application", "docx")
FileXlsx == MkFile("d.xlsx", ".xlsx", "application/vnd.openxmlformats-officedocument.spreadsheetml.sheet", "application", "xlsx")
FileTxt  == MkFile("e.txt", ".txt", "text/plain", "text", "hello")
FileZip  == MkFile("f.zip", ".zip", "application/zip", "application", "PK")

FileSamples == {FilePdf, FilePng, FileDocx, FileXlsx, FileTxt, FileZip}

\* btoa over the bytes
ArrayBufferToBase64(bytes) ==
    CASE bytes = "%PDF" -> "JVBERg=="
      [] bytes = "PNG" -> "UE5H"
      [] bytes = "docx" -> "ZG9jeA=="
      [] bytes = "xlsx" -> "eGxzeA=="
      [] bytes = "hello" -> "aGVsbG8="
      [] OTHER -> "UEs="

\* mammoth.extractRawText({arrayBuffer}).value
ExtractRawText(bytes) == <<"raw text of ", bytes>>

\* XLSX.read(fileData): the workbook's sheets, each with its sheet_to_csv
Workbook(bytes) ==
    << [sheetName |-> "Sheet1", csv |-> <<"a,b">>],
       [sheetName |-> "Empty", csv |-> <<>>],
       [sheetName |-> "Sheet3", csv |-> <<"c,d">>] >>

\* new TextDecoder().decode(fileData)
Decode(bytes) == <<"decoded ", bytes>>

RECURSIVE CsvContent(_)
CsvContent(sheets) ==
    IF sheets = <<>> THEN <<>>
    ELSE LET sh == Head(sheets)
         IN  (IF sh.csv # <<>>
              THEN <<"[Sheet: ", sh.sheetName, "]">> \o sh.csv
              ELSE <<>>) \o CsvContent(Tail(sheets))

NoInlineData == [mimeType |-> "", data |-> ""]

\* WorkerResponse / ProcessedPart: text, inlineData and error are optional
MkResponse(text, inlineData, error) ==
    [text |-> text, inlineData |-> inlineData, error |-> error]

\* Whether handling this file runs an operation that can throw
CanThrow(file) ==
    \/ file.type = "application/pdf"
    \/ file.major = "image"
    \/ file.suffix = ".docx"
    \/ file.suffix = ".xlsx"
    \/ file.suffix = ".xls"

\* self.onmessage of the worker: the message it posts back for `file`;
\* `throws` says that the conversion or the parsing library throws.
WorkerOnMessage(file, throws) ==
    IF file.type = "application/pdf"
    THEN IF throws
         THEN MkResponse(<<>>, NoInlineData, <<"Unknown worker error: ", "thrown">>)
         ELSE MkResponse(<<>>, [mimeType |-> "application/pdf",
                               data |-> ArrayBufferToBase64(file.bytes)], <<>>)
    ELSE IF file.major = "image"
    THEN IF throws
         THEN MkResponse(<<>>, NoInlineData, <<"Unknown worker error: ", "thrown">>)
         ELSE MkResponse(<<>>, [mimeType |-> file.type,
                               data |-> ArrayBufferToBase64(file.bytes)], <<>>)
    ELSE IF file.suffix = ".docx"
    THEN IF throws
         THEN MkResponse(<<>>, NoInlineData, <<"Docx parsing failed: ", "thrown">>)
         ELSE MkResponse(<<"[Attached File Content: ", file.name, "]">>
                           \o ExtractRawText(file.bytes)
                           \o <<"[End of File: ", file.name, "]">>,
                         NoInlineData, <<>>)
    ELSE IF file.suffix = ".xlsx" \/ file.suffix = ".xls"
    THEN IF throws
         THEN MkResponse(<<>>, NoInlineData, <<"Excel parsing failed: ", "thrown">>)
         ELSE MkResponse(<<"[Attached File Content: ", file.name, "]">>
                           \o CsvContent(Workbook(file.bytes))
                           \o <<"[End of File: ", file.name, "]">>,
                         NoInlineData, <<>>)
    ELSE IF file.major = "text"
    THEN MkResponse(<<"[Attached File Content: ", file.name, "]">> \o Decode(file.bytes),
                    NoInlineData, <<>>)
    ELSE MkResponse(<<"[Skipped unsupported file: ", file.name, "]">>, NoInlineData, <<>>)

MkPart(text, inlineData) == [text |-> text, inlineData |-> inlineData]

\* worker.onmessage of processFile: what the promise resolves to
OnWorkerMessage_DropsName(file, response) ==
    IF response.error # <<>>
    THEN MkPart(<<"[Error parsing file]">>, NoInlineData)
    ELSE MkPart(response.text, response.inlineData)

OnWorkerMessage(file, response) ==
    IF response.error # <<>>
    THEN MkPart(<<"[Error parsing file: ", file.name, "]">>, NoInlineData)
    ELSE MkPart(response.text, response.inlineData)

\* worker.onerror of processFile
OnWorkerError(file) == MkPart(<<"[Error processing file: ", file.name, "]">>, NoInlineData)

\* the .catch of file.arrayBuffer() in processFile
OnReadError(file) == MkPart(<<"[Error reading file: ", file.name, "]">>, NoInlineData)

(* One processFile promise.  pc: "reading" (file.arrayBuffer() pending),   *)
(* "posted" (the message is with the worker), "resolved".  fate records    *)
(* what happened to the extraction: "ok", "read" (the bytes could not be   *)
(* read), "worker" (worker.onerror fired), "parse" (the worker answered    *)
(* with an error).                                                         *)
ProcessFile(file) ==
    [file |-> file, pc |-> "reading", fate |-> "", part |-> MkPart(<<>>, NoInlineData)]

\* files.map(f => processFile(f))
StartAll(files) == [i \in DOMAIN files |-> ProcessFile(files[i])]

AllResolved(slots) == \A i \in DOMAIN slots : slots[i].pc = "resolved"

\* Promise.all settles when every promise resolved or one of them rejected
AnyRejected(slots) == \E i \in DOMAIN slots : slots[i].pc = "rejected"
AllSettled(slots) == AllResolved(slots) \/ AnyRejected(slots)

SlotResolve_Retries(slot, fate, part) ==
    IF fate = "ok" THEN [slot EXCEPT !.pc = "resolved", !.fate = fate, !.part = part]
    ELSE [slot EXCEPT !.pc = "reading"]

SlotResolve(slot, fate, part) ==
    [slot EXCEPT !.pc = "resolved", !.fate = fate, !.part = part]

\* .catch(err => { resolve({ text: `[Error reading file: ...]` }); worker.terminate(); })
ReadFailed_Rejects(slot) == [slot EXCEPT !.pc = "rejected", !.fate = "read"]

ReadFailed(slot) == SlotResolve(slot, "read", OnReadError(slot.file))

\* file.arrayBuffer() settles: the buffer is posted to the worker, or the read failed
ExtRead(i, fails) ==
    /\ i \in DOMAIN ext
    /\ ext[i].pc = "reading"
    /\ ext' = [ext EXCEPT ![i] =
                 IF fails THEN ReadFailed(@) ELSE [@ EXCEPT !.pc = "posted"]]

\* the worker fails (its script does not load, or it dies): worker.onerror
ExtWorkerError(i) ==
    /\ i \in DOMAIN ext
    /\ ext[i].pc \in {"reading", "posted"}
    /\ ext' = [ext EXCEPT ![i] = SlotResolve(@, "worker", OnWorkerError(@.file))]

\* the worker handles the message and answers: worker.onmessage
ExtWorkerMessage(i, throws) ==
    /\ i \in DOMAIN ext
    /\ ext[i].pc = "posted"
    /\ throws => CanThrow(ext[i].file)
    /\ LET response == WorkerOnMessage(ext[i].file, throws)
       IN  ext' = [ext EXCEPT ![i] =
                     SlotResolve(@, IF response.error # <<>> THEN "parse" ELSE "ok",
                                 OnWorkerMessage(@.file, response))]

-----------------------------------------------------------------------------
(* Idle values of the other components *)

\* A function call of a response chunk: name, args['newContent'], id
MkCall(name, newContent, id) ==
    [present |-> TRUE, name |-> name, newContent |-> newContent, id |-> id]

\* let functionCall: any = null;
NoCall == [present |-> FALSE, name |-> "", newContent |-> <<>>, id |-> ""]

\* A value of type string | undefined
Undefined == [defined |-> FALSE, text |-> <<>>]
Defined(text) == [defined |-> TRUE, text |-> text]

\* What sendMessage resolves to: { responseText, updatedReport? }
MkResult(responseText, updatedReport) ==
    [responseText |-> responseText, updatedReport |-> updatedReport]

(* The ReportAssistant and its running sendMessage.  pc: "idle" (nothing   *)
(* constructed), "ready" (constructed, no turn running), "extract"         *)
(* (awaiting Promise.all of the attachments), "send" (first callWithRetry),*)
(* "reply" (iterating the reply stream), "ack" (second callWithRetry),     *)
(* "followup" (iterating the stream that follows the acknowledgment),      *)
(* "returned".  history is what ai.chats.create was given; sent logs every *)
(* call of this.chat.sendMessageStream with its message and whether the    *)
(* call opened a stream; failedAt is the pc at which the catch block was   *)
(* entered, "" when it was not.                                            *)
ChatIdle ==
    [pc |-> "idle", history |-> <<>>, sent |-> <<>>,
     message |-> <<>>, files |-> <<>>, parts |-> <<>>,
     responseText |-> <<>>, functionCall |-> NoCall, updatedReport |-> Undefined,
     toolResponseParts |-> <<>>, chunks |-> <<>>, followup |-> <<>>,
     emitted |-> <<>>, result |-> MkResult(<<>>, Undefined),
     failedAt |-> "", error |-> NoError]

\* "這是目前的報告初稿:" and "收到。我已經檢視了初稿，隨時準備協助您補充缺失資訊或修潤內容。"
SeedPrefix == "Zhe shi muqian de baogao chugao:"
SeedReply == <<"Shoudao. Wo yijing jianshi le chugao.">>

\* history: [{role: 'user', parts: [..]}, {role: 'model', parts: [..]}]
MkTurn(role, text) == [role |-> role, parts |-> <<MkPart(text, NoInlineData)>>]

\* constructor(currentReport, standardContext, companyName)
NewAssistant_NoDocument(currentReport) ==
    [ChatIdle EXCEPT !.pc = "ready",
                     !.history = <<MkTurn("user", <<SeedPrefix>>),
                                   MkTurn("model", SeedReply)>>]

NewAssistant(currentReport) ==
    [ChatIdle EXCEPT !.pc = "ready",
                     !.history = <<MkTurn("user", <<SeedPrefix>> \o currentReport),
                                   MkTurn("model", SeedReply)>>]

\* generatedReport of App.tsx: null, or a text
DraftNull == [isNull |-> TRUE, text |-> <<>>]
Draft(text) == [isNull |-> FALSE, text |-> text]

\* A ChatMessage of the transcript: { role, text }
MkMessage(role, text) == [role |-> role, text |-> text]

(* The rest of App's state.  error is <<>> for null; assistantRef is 0 for *)
(* null and otherwise the number of the session it refers to; sessions[k]  *)
(* is the report session k was constructed with; timers counts the pending *)
(* greeting timeouts; gens and turns are the generateReport and            *)
(* sendMessage calls App awaits; crashed is set when a state updater threw *)
(* while rendering, which unmounts App.                                    *)
AppIdle ==
    [isLoading |-> FALSE, error |-> <<>>, assistantRef |-> 0,
     isChatProcessing |-> FALSE, isChatOpen |-> FALSE, chatMessages |-> <<>>,
     sessions |-> <<>>, timers |-> 0, gens |-> <<>>, turns |-> <<>>,
     crashed |-> FALSE]

\* The transcript when a turn starts: the greeting of the session
Greeting == MkMessage("model", <<"Nin hao, wo shi nin de AI bianji zhuli.">>)

\* App after a generation that returned `draft` and after its greeting
AppAfterDraft(draft) ==
    [AppIdle EXCEPT !.assistantRef = 1, !.sessions = <<draft>>,
                    !.isChatOpen = TRUE, !.chatMessages = <<Greeting>>]

EarlierReport == <<"# Report v0">>

-----
(* generateReport                                                          *)

\* A grounding reference (groundingChunks[i].web): uri and title, "" when absent
MkRef(title, uri) == [title |-> title, uri |-> uri]

\* chunk.candidates?.[0]?.groundingMetadata: absent, or present with or
\* without a groundingChunks list
NoMetadata == [present |-> FALSE, hasChunks |-> FALSE, groundingChunks |-> <<>>]
MetadataOnly == [present |-> TRUE, hasChunks |-> FALSE, groundingChunks |-> <<>>]
Metadata(refs) == [present |-> TRUE, hasChunks |-> TRUE, groundingChunks |-> refs]

MkChunk(text, metadata) == [text |-> text, metadata |-> metadata]

RefA == MkRef("Title A", "https://a")
RefA2 == MkRef("Other title", "https://a")
RefB == MkRef("Title B", "https://b")
RefNoTitle == MkRef("", "https://c")
RefNoUri == MkRef("Title D", "")

\* The chunks a generateContentStream response is made of
ChunkSamples ==
    { MkChunk(<<"a">>, NoMetadata),
      MkChunk(<<"b">>, NoMetadata),
      MkChunk(<<>>, Metadata(<<RefB, RefNoTitle, RefA, RefB, RefNoUri, RefA2>>)),
      MkChunk(<<"c">>, Metadata(<<RefA>>)),
      MkChunk(<<>>, Metadata(<<RefNoTitle, RefNoUri>>)),
      MkChunk(<<>>, MetadataOnly) }

\* urls.length > 0 ? `\n\n# Reference URLs\n${urls.map(u => `- ${u}`).join('\n')}` : ''
RECURSIVE UrlLines(_)
UrlLines(urls) ==
    IF urls = <<>> THEN <<>>
    ELSE <<"- ", Head(urls)>> \o (IF Tail(urls) = <<>> THEN <<>> ELSE <<"\n">>)
         \o UrlLines(Tail(urls))

UrlContext(urls) ==
    IF Len(urls) > 0 THEN <<"# Reference URLs">> \o UrlLines(urls) ELSE <<>>

\* getReportSystemPrompt(..., searchInstruction, rawInput, urlContext)
SystemPrompt(urls, useGoogleSearch) ==
    <<"# Role", "# Context (GRI Standards)", "# Instructions", "# Hard Rules", "# Formatting">>
    \o (IF useGoogleSearch THEN <<"6. Google Search">> ELSE <<>>)
    \o <<"# User Data", "rawInput">> \o UrlContext(urls)

\* fileParts.map(p => p.inlineData ? { inlineData: p.inlineData } : { text: p.text || '' })
ToRequestPart(p) ==
    IF p.inlineData # NoInlineData
    THEN MkPart(<<>>, p.inlineData)
    ELSE MkPart(p.text, NoInlineData)

\* const parts: Part[] = [{ text: systemPrompt }, ...fileParts.map(..)]
RequestParts_NoPrompt(urls, useGoogleSearch, slots) ==
    [i \in DOMAIN slots |-> ToRequestPart(slots[i].part)]

RequestParts(urls, useGoogleSearch, slots) ==
    <<MkPart(SystemPrompt(urls, useGoogleSearch), NoInlineData)>>
    \o [i \in DOMAIN slots |-> ToRequestPart(slots[i].part)]

\* const tools: Tool[] = []; if (useGoogleSearch || urls.length > 0) tools.push({googleSearch: {}})
Tools_ToggleOnly(useGoogleSearch, urls) ==
    IF useGoogleSearch THEN <<"googleSearch">> ELSE <<>>

Tools(useGoogleSearch, urls) ==
    IF useGoogleSearch \/ Len(urls) > 0 THEN <<"googleSearch">> ELSE <<>>

\* config.tools: tools.length > 0 ? tools : undefined
ConfigTools(tools) ==
    IF Len(tools) > 0
    THEN [defined |-> TRUE, list |-> tools]
    ELSE [defined |-> FALSE, list |-> <<>>]

NoRequest == [parts |-> <<>>, tools |-> ConfigTools(<<>>)]

\* The uniqueSources / sourceList loop over groundingChunks
RECURSIVE SourceListFrom(_, _)
SourceListFrom(refs, uniqueSources) ==
    IF refs = <<>> THEN <<>>
    ELSE LET r == Head(refs)
         IN  IF r.uri # "" /\ r.title # "" /\ r.uri \notin uniqueSources
             THEN <<r>> \o SourceListFrom(Tail(refs), uniqueSources \cup {r.uri})
             ELSE SourceListFrom(Tail(refs), uniqueSources)

RECURSIVE SourceListNoDedup(_)
SourceListNoDedup(refs) ==
    IF refs = <<>> THEN <<>>
    ELSE (IF Head(refs).uri # "" /\ Head(refs).title # "" THEN <<Head(refs)>> ELSE <<>>)
         \o SourceListNoDedup(Tail(refs))

SourceList_NoDedup(metadata) ==
    IF metadata.present /\ metadata.hasChunks
    THEN SourceListNoDedup(metadata.groundingChunks)
    ELSE <<>>

SourceList(metadata) ==
    IF metadata.present /\ metadata.hasChunks
    THEN SourceListFrom(metadata.groundingChunks, {})
    ELSE <<>>

\* sourceList.join('\n') with sourceEntry = `- [${title}](${uri})`
RECURSIVE JoinEntries(_)
JoinEntries(list) ==
    IF list = <<>> THEN <<>>
    ELSE <<"- [", Head(list).title, "](", Head(list).uri, ")">>
         \o (IF Tail(list) = <<>> THEN <<>> ELSE <<"\n">>)
         \o JoinEntries(Tail(list))

\* "\n\n### Google Search Sources (資料來源)\n"
SourcesHeader == "### Google Search Sources (ziliao laiyuan)"

SourceText(list) == <<SourcesHeader>> \o JoinEntries(list)

GenIdle ==
    [pc |-> "idle", files |-> <<>>, urls |-> <<>>, useGoogleSearch |-> FALSE,
     request |-> NoRequest, fullText |-> <<>>, metadata |-> NoMetadata,
     chunks |-> <<>>, emitted |-> <<>>, result |-> <<>>, error |-> NoError]

\* generateReport up to the remote call: the prompt, the parts and the tools
GenAssembled(g, slots) ==
    [g EXCEPT !.pc = "call",
              !.request = [parts |-> RequestParts(g.urls, g.useGoogleSearch, slots),
                           tools |-> ConfigTools(Tools(g.useGoogleSearch, g.urls))]]

\* generateReport(…, files, urls, …, useGoogleSearch, onStreamUpdate) is called:
\* with files it first awaits Promise.all(files.map(processFile))
GenBegin(files, urls, useGoogleSearch) ==
    LET g == [GenIdle EXCEPT !.files = files, !.urls = urls,
                             !.useGoogleSearch = useGoogleSearch]
    IN  IF Len(files) > 0 THEN [g EXCEPT !.pc = "extract"] ELSE GenAssembled(g, <<>>)

\* catch (error: any) of generateReport.  Reading .includes of a missing
\* message throws a TypeError out of the catch block.
GenCatch_ResetsText(g, e) ==
    [g EXCEPT !.pc = "thrown", !.fullText = <<>>,
              !.error =
                 IF e.message = <<>>
                 THEN NewError(<<"TypeError: Cannot read properties of undefined (reading 'includes')">>)
                 ELSE IF Includes(e.message, "API jinyao wuxiao") THEN e
                 ELSE IF Includes(e.message, "Quota") THEN e
                 ELSE NewError(<<"Failed to generate report: ">> \o e.message)]

GenCatch(g, e) ==
    [g EXCEPT !.pc = "thrown",
              !.error =
                 IF e.message = <<>>
                 THEN NewError(<<"TypeError: Cannot read properties of undefined (reading 'includes')">>)
                 ELSE IF Includes(e.message, "API jinyao wuxiao") THEN e
                 ELSE IF Includes(e.message, "Quota") THEN e
                 ELSE NewError(<<"Failed to generate report: ">> \o e.message)]

\* The body of `for await (const chunk of result)` with the callback's argument
GenOnChunk_EmitsDelta(g, chunk) ==
    [g EXCEPT !.fullText = @ \o chunk.text,
              !.emitted = IF chunk.text # <<>> THEN Append(@, chunk.text) ELSE @,
              !.metadata = IF chunk.metadata.present THEN chunk.metadata ELSE @,
              !.chunks = Append(@, chunk)]

GenOnChunk(g, chunk) ==
    [g EXCEPT !.fullText = @ \o chunk.text,
              !.emitted = IF chunk.text # <<>> THEN Append(@, g.fullText \o chunk.text) ELSE @,
              !.metadata = IF chunk.metadata.present THEN chunk.metadata ELSE @,
              !.chunks = Append(@, chunk)]

\* After the loop: the sources section, the last callback, return fullText
GenFinish(g) ==
    LET sourceList == SourceList(g.metadata)
        fullText == IF Len(sourceList) > 0 THEN g.fullText \o SourceText(sourceList)
                    ELSE g.fullText
    IN  [g EXCEPT !.pc = "returned",
                  !.fullText = fullText,
                  !.emitted = IF Len(sourceList) > 0 THEN Append(@, fullText) ELSE @,
                  !.result = fullText]

\* The value handleGenerate's callback stores: setGeneratedReport(streamedText)
StoreEmitted(before, after, draft) ==
    IF Len(after.emitted) > Len(before.emitted)
    THEN Draft(after.emitted[Len(after.emitted)])
    ELSE draft

(* handleGenerate of App.tsx around one generateReport call *)

\* handleGenerate up to the call of generateReport
GenerateBegin_KeepsSession(a) ==
    [a EXCEPT !.isLoading = TRUE, !.error = <<>>, !.chatMessages = <<>>,
              !.isChatOpen = FALSE]

GenerateBegin(a) ==
    [a EXCEPT !.isLoading = TRUE, !.error = <<>>, !.chatMessages = <<>>,
              !.isChatOpen = FALSE, !.assistantRef = 0]

\* After the await: the assistant, the busy flag and the greeting timer when
\* generateReport returned; the catch when it raised; the finally
GenerateEnd(g, a) ==
    IF g.pc = "returned"
    THEN [a EXCEPT !.sessions = Append(@, g.result),
                   !.assistantRef = Len(a.sessions) + 1,
                   !.isChatProcessing = TRUE,
                   !.timers = @ + 1,
                   !.isLoading = FALSE]
    ELSE IF g.pc = "thrown"
    THEN [a EXCEPT !.error = IF g.error.message # <<>> THEN g.error.message
                             ELSE <<"An error occurred during generation.">>,
                   !.isLoading = FALSE]
    ELSE a

\* One step of generateReport with what handleGenerate does on it
GenStep(g) ==
    /\ gen' = g
    /\ generatedReport' = IF g.pc = "returned" THEN Draft(g.result)
                          ELSE StoreEmitted(gen, g, generatedReport)
    /\ chat' = IF g.pc = "returned" THEN NewAssistant(g.result) ELSE chat
    /\ app' = GenerateEnd(g, app)

(* Actions of generateReport, as called by handleGenerate *)

GenStart(fileLists, urlLists, priors) ==
    \E files \in fileLists, urls \in urlLists, useGoogleSearch \in BOOLEAN,
       prior \in priors :
        LET g == GenBegin(files, urls, useGoogleSearch)
        IN  /\ gen = g
            /\ ext = StartAll(files)
            /\ cw = IF g.pc = "call" THEN CwBegin(DefaultRetries) ELSE CwIdle
            /\ chat = ChatIdle
            /\ generatedReport = DraftNull
            /\ app = GenerateBegin(prior)

GenExtRead ==
    /\ gen.pc = "extract"
    /\ \E i \in DOMAIN ext, fails \in BOOLEAN : ExtRead(i, fails)
    /\ UNCHANGED <<cw, gen, chat, generatedReport, app>>

GenExtWorkerError ==
    /\ gen.pc = "extract"
    /\ \E i \in DOMAIN ext : ExtWorkerError(i)
    /\ UNCHANGED <<cw, gen, chat, generatedReport, app>>

GenExtWorkerMessage ==
    /\ gen.pc = "extract"
    /\ \E i \in DOMAIN ext, throws \in BOOLEAN : ExtWorkerMessage(i, throws)
    /\ UNCHANGED <<cw, gen, chat, generatedReport, app>>

\* Promise.all resolved: fileParts, parts, tools, and callWithRetry is entered
\* (a rejection of Promise.all would leave generateReport before its try block)
GenAssemble ==
    /\ gen.pc = "extract"
    /\ AllSettled(ext)
    /\ IF AnyRejected(ext)
       THEN /\ GenStep([gen EXCEPT !.pc = "thrown",
                                    !.error = NewError(<<"file could not be read">>)])
            /\ cw' = cw
       ELSE /\ GenStep(GenAssembled(gen, ext))
            /\ cw' = CwBegin(DefaultRetries)
    /\ UNCHANGED ext

\* ai.models.generateContentStream(..) settles: the stream is opened, or it throws
GenInvoke(errors) ==
    /\ gen.pc = "call"
    /\ cw.pc = "try"
    /\ \E o \in {Resolved("stream")} \cup {Rejected(e) : e \in errors} :
          /\ cw' = CwInvoke(cw, o)
          /\ GenStep(IF cw'.pc = "returned" THEN [gen EXCEPT !.pc = "stream"]
                     ELSE IF cw'.pc = "thrown" THEN GenCatch(gen, cw'.error)
                     ELSE gen)
    /\ UNCHANGED ext

GenWake ==
    /\ gen.pc = "call"
    /\ cw.pc = "sleep"
    /\ cw' = CwWake(cw)
    /\ GenStep(IF cw'.pc = "thrown" THEN GenCatch(gen, cw'.error) ELSE gen)
    /\ UNCHANGED ext

\* The stream yields a chunk
GenChunk(chunks) ==
    /\ gen.pc = "stream"
    /\ Len(gen.chunks) < MaxChunks
    /\ \E chunk \in chunks : GenStep(GenOnChunk(gen, chunk))
    /\ UNCHANGED <<cw, ext>>

\* The stream ends; generateReport returns; handleGenerate stores the report,
\* constructs the assistant and schedules the greeting
GenStreamEnd ==
    /\ gen.pc = "stream"
    /\ GenStep(GenFinish(gen))
    /\ UNCHANGED <<cw, ext>>

\* The stream throws while it is iterated
GenStreamThrow(errors) ==
    /\ gen.pc = "stream"
    /\ \E e \in errors : GenStep(GenCatch(gen, [e EXCEPT !.oid = Len(cw.calls) + 1]))
    /\ UNCHANGED <<cw, ext>>

(* SpecGen: one generation, its response stream explored in full *)

GenFileLists == {<<>>, <<FilePdf>>}
GenUrlLists == {<<>>, <<"https://u1">>}

GenErrors ==
    { MkError(429, 0, 0, "", <<"Too Many Requests">>, <<>>, ""),
      MkError(400, 0, 0, "", <<"API key not valid", ". Please pass a valid API key.">>, <<>>, ""),
      MkError(400, 0, 0, "INVALID_ARGUMENT", <<"Bad Request">>, <<>>, "") }

\* The first generation, or one that follows an earlier draft
GenPriors == {AppIdle, AppAfterDraft(EarlierReport)}
GenInit == GenStart(GenFileLists, GenUrlLists, GenPriors)

GenNext ==
    \/ GenExtRead
    \/ GenExtWorkerError
    \/ GenExtWorkerMessage
    \/ GenAssemble
    \/ GenInvoke(GenErrors)
    \/ GenWake
    \/ GenChunk(ChunkSamples)
    \/ GenStreamEnd
    \/ GenStreamThrow(GenErrors)

SpecGen == GenInit /\ [][GenNext]_vars

(* SpecAssemble: one generation, its inputs explored in full *)

\* The lists of at most n different elements of S
RECURSIVE ListsUpTo(_, _)
ListsUpTo(S, n) ==
    IF n = 0 THEN {<<>>}
    ELSE LET shorter == ListsUpTo(S, n - 1)
         IN  shorter \cup
             UNION {{Append(q, x) : x \in {y \in S : \A i \in DOMAIN q : q[i] # y}} :
                    q \in shorter}

AssembleFileLists == ListsUpTo(FileSamples, MaxFiles)
AssembleUrlLists == {<<>>, <<"https://u1">>}

AssembleErrors == { MkError(0, 503, 0, "", <<"The model is ", "overloaded">>, <<>>, "") }
AssembleChunks == { MkChunk(<<"a">>, NoMetadata) }

AssembleInit == GenStart(AssembleFileLists, AssembleUrlLists, {AppIdle})

AssembleNext ==
    \/ GenExtRead
    \/ GenExtWorkerError
    \/ GenExtWorkerMessage
    \/ GenAssemble
    \/ GenInvoke(AssembleErrors)
    \/ GenWake
    \/ GenChunk(AssembleChunks)
    \/ GenStreamEnd
    \/ GenStreamThrow(AssembleErrors)

SpecAssemble == AssembleInit /\ [][AssembleNext]_vars

(* SpecExtractFair: the extractions of up to MaxFiles files of three kinds *)
(* before one generation, under the assumption that every file read        *)
(* settles, every worker answers or fails, and the continuation of a       *)
(* resolved Promise.all runs                                               *)

ExtractFileLists == ListsUpTo({FilePng, FileDocx, FileZip}, MaxFiles)

ExtractInit == GenStart(ExtractFileLists, {<<>>}, {AppIdle})

SpecExtract == ExtractInit /\ [][AssembleNext]_vars

SpecExtractFair ==
    /\ SpecExtract
    /\ WF_vars(GenExtRead \/ GenExtWorkerError \/ GenExtWorkerMessage)
    /\ WF_vars(GenAssemble)

-----------------------------------------------------------------------------
(* ReportAssistant                                                         *)

\* "報告已更新。"
DefaultAck == <<"Baogao yi gengxin.">>

\* "抱歉，處理您的請求時發生錯誤。"
Apology == <<"Baoqian, chuli nin de qingqiu shi fasheng cuowu.">>

\* for (const pf of processedFiles) { inlineData part; text part }
RECURSIVE FileParts(_)
FileParts(slots) ==
    IF slots = <<>> THEN <<>>
    ELSE LET pf == Head(slots).part
         IN  (IF pf.inlineData # NoInlineData THEN <<MkPart(<<>>, pf.inlineData)>> ELSE <<>>)
             \o (IF pf.text # <<>> THEN <<MkPart(pf.text, NoInlineData)>> ELSE <<>>)
             \o FileParts(Tail(slots))

\* parts.push({ text: message }); the first callWithRetry is entered
ChatAssembled_MessageFirst(c, slots) ==
    [c EXCEPT !.pc = "send",
              !.parts = <<MkPart(c.message, NoInlineData)>> \o FileParts(slots)]

ChatAssembled(c, slots) ==
    [c EXCEPT !.pc = "send",
              !.parts = FileParts(slots) \o <<MkPart(c.message, NoInlineData)>>]

\* sendMessage(message, files, onStreamUpdate) is called
ChatBegin(c, message, files) ==
    LET d == [c EXCEPT !.message = message, !.files = files, !.parts = <<>>,
                       !.responseText = <<>>, !.functionCall = NoCall,
                       !.updatedReport = Undefined, !.toolResponseParts = <<>>,
                       !.chunks = <<>>, !.followup = <<>>, !.emitted = <<>>,
                       !.result = MkResult(<<>>, Undefined),
                       !.failedAt = "", !.error = NoError]
    IN  IF Len(files) > 0 THEN [d EXCEPT !.pc = "extract"] ELSE ChatAssembled(d, <<>>)

\* catch (error: any) of sendMessage
ChatCatch_Rethrows(c, e) ==
    IF /\ e.message # <<>>
       /\ \/ Includes(e.message, "Quota")
          \/ Includes(e.message, "API jinyao wuxiao")
          \/ Includes(e.message, "xitong")
    THEN [c EXCEPT !.pc = "returned", !.failedAt = c.pc, !.error = e,
                   !.result = MkResult(e.message, Undefined)]
    ELSE [c EXCEPT !.pc = "thrown", !.failedAt = c.pc, !.error = e]

ChatCatch(c, e) ==
    [c EXCEPT !.pc = "returned", !.failedAt = c.pc, !.error = e,
              !.result =
                 IF /\ e.message # <<>>
                    /\ \/ Includes(e.message, "Quota")
                       \/ Includes(e.message, "API jinyao wuxiao")
                       \/ Includes(e.message, "xitong")
                 THEN MkResult(e.message, Undefined)
                 ELSE MkResult(Apology, Undefined)]

\* return { responseText, updatedReport };
ChatReturn(c) ==
    [c EXCEPT !.pc = "returned", !.result = MkResult(c.responseText, c.updatedReport)]

\* A chunk of a sendMessageStream response: chunk.text and chunk.functionCalls
MkChatChunk(text, functionCalls) == [text |-> text, functionCalls |-> functionCalls]

\* The body of the first `for await (const chunk of streamResult)`
ChatOnChunk_EmitsDelta(c, chunk) ==
    [c EXCEPT !.responseText = @ \o chunk.text,
              !.emitted = IF chunk.text # <<>> THEN Append(@, chunk.text) ELSE @,
              !.functionCall = IF Len(chunk.functionCalls) > 0 THEN chunk.functionCalls[1]
                               ELSE @,
              !.chunks = Append(@, chunk)]

ChatOnChunk(c, chunk) ==
    [c EXCEPT !.responseText = @ \o chunk.text,
              !.emitted = IF chunk.text # <<>> THEN Append(@, c.responseText \o chunk.text)
                          ELSE @,
              !.functionCall = IF Len(chunk.functionCalls) > 0 THEN chunk.functionCalls[1]
                               ELSE @,
              !.chunks = Append(@, chunk)]

\* const toolResponseParts: Part[] = [{ functionResponse: { name, response, id } }]
ToolResponseParts_NoId(functionCall) ==
    << [functionResponse |-> [name |-> functionCall.name,
                              response |-> [result |-> "Success"],
                              id |-> ""]] >>

ToolResponseParts(functionCall) ==
    << [functionResponse |-> [name |-> functionCall.name,
                              response |-> [result |-> "Success"],
                              id |-> functionCall.id]] >>

\* After the first loop: if (functionCall && functionCall.name === 'updateReport')
ChatReplyEnd_AnyCall(c) ==
    IF c.functionCall.present
    THEN [c EXCEPT !.pc = "ack",
                   !.updatedReport = Defined(c.functionCall.newContent),
                   !.toolResponseParts = ToolResponseParts(c.functionCall)]
    ELSE ChatReturn(c)

ChatReplyEnd(c) ==
    IF c.functionCall.present /\ c.functionCall.name = "updateReport"
    THEN [c EXCEPT !.pc = "ack",
                   !.updatedReport = Defined(c.functionCall.newContent),
                   !.toolResponseParts = ToolResponseParts(c.functionCall)]
    ELSE ChatReturn(c)

\* responseText = ""; if (onStreamUpdate) onStreamUpdate("");
ChatAcked_KeepsText(c) == [c EXCEPT !.pc = "followup"]

ChatAcked(c) ==
    [c EXCEPT !.pc = "followup", !.responseText = <<>>, !.emitted = Append(@, <<>>)]

\* The body of `for await (const chunk of toolStreamResult)`
ChatOnFollowup(c, chunk) ==
    [c EXCEPT !.responseText = @ \o chunk.text,
              !.emitted = IF chunk.text # <<>> THEN Append(@, c.responseText \o chunk.text)
                          ELSE @,
              !.followup = Append(@, chunk)]

\* if (!responseText) responseText = "報告已更新。";  and the return
ChatFollowupEnd_NoFallback(c) == ChatReturn(c)

ChatFollowupEnd(c) ==
    ChatReturn([c EXCEPT !.responseText = IF @ = <<>> THEN DefaultAck ELSE @])

\* One call of this.chat.sendMessageStream({ message }) and how it settled
LogSent(c, message, ok) == [c EXCEPT !.sent = Append(@, [message |-> message, ok |-> ok])]

(* handleSendMessage of App.tsx around one sendMessage call *)

\* "(已上傳 n 個檔案)": the note appended to the user's text for n attachments
UserMsgText(text, files) ==
    IF Len(files) > 0 THEN text \o <<"(yi shangchuan ", ToString(Len(files)), " ge dangan)">>
    ELSE text

\* handleSendMessage up to the call of sendMessage: the busy flag, the user's
\* message and the placeholder of the reply
TurnBegin(a, text, files) ==
    [a EXCEPT !.isChatProcessing = TRUE,
              !.chatMessages = @ \o <<MkMessage("user", UserMsgText(text, files)),
                                      MkMessage("model", <<>>)>>]

\* if (newHistory[lastIdx].role === 'model') newHistory[lastIdx].text = text
SetLastModelText(messages, text) ==
    IF Len(messages) > 0 /\ messages[Len(messages)].role = "model"
    THEN [messages EXCEPT ![Len(messages)].text = text]
    ELSE messages

\* The onStreamUpdate callback handleSendMessage passes to sendMessage
TurnEmitted(before, after, a) ==
    IF Len(after.emitted) > Len(before.emitted)
    THEN [a EXCEPT !.chatMessages =
                      SetLastModelText(@, after.emitted[Len(after.emitted)])]
    ELSE a

\* The final sync, the catch and the finally of handleSendMessage
TurnEnd_NoSync(c, a) ==
    IF c.pc \in {"returned", "thrown"} THEN [a EXCEPT !.isChatProcessing = FALSE] ELSE a

TurnEnd(c, a) ==
    IF c.pc = "returned"
    THEN [a EXCEPT !.chatMessages = SetLastModelText(@, c.result.responseText),
                   !.isChatProcessing = FALSE]
    ELSE IF c.pc = "thrown"
    THEN [a EXCEPT !.chatMessages =
                      [@ EXCEPT ![Len(@)].text = <<"Error communicating with assistant.">>],
                   !.isChatProcessing = FALSE]
    ELSE a

\* if (result.updatedReport) setGeneratedReport(result.updatedReport)
AdoptReport(c, draft) ==
    IF /\ c.pc = "returned"
       /\ c.result.updatedReport.defined
       /\ c.result.updatedReport.text # <<>>
    THEN Draft(c.result.updatedReport.text)
    ELSE draft

\* One step of sendMessage with what handleSendMessage does on it
TurnStep(c) ==
    /\ chat' = c
    /\ app' = TurnEnd(c, TurnEmitted(chat, c, app))
    /\ generatedReport' = AdoptReport(c, generatedReport)

\* What a throwing onStreamUpdate callback throws
CallbackError == NewError(<<"onStreamUpdate failed">>)

(* Actions of sendMessage, as called by handleSendMessage *)

ChatStart(drafts, messages, fileLists) ==
    \E draft \in drafts, message \in messages, files \in fileLists :
        LET c == ChatBegin(NewAssistant(draft), message, files)
        IN  /\ chat = c
            /\ ext = StartAll(files)
            /\ cw = IF c.pc = "send" THEN CwBegin(DefaultRetries) ELSE CwIdle
            /\ gen = GenIdle
            /\ generatedReport = Draft(draft)
            /\ app = TurnBegin([AppIdle EXCEPT !.assistantRef = 1,
                                               !.sessions = <<draft>>,
                                               !.isChatOpen = TRUE,
                                               !.chatMessages = <<Greeting>>],
                               message, files)

ChatExtRead ==
    /\ chat.pc = "extract"
    /\ \E i \in DOMAIN ext, fails \in BOOLEAN : ExtRead(i, fails)
    /\ UNCHANGED <<cw, gen, chat, generatedReport, app>>

ChatExtWorkerError ==
    /\ chat.pc = "extract"
    /\ \E i \in DOMAIN ext : ExtWorkerError(i)
    /\ UNCHANGED <<cw, gen, chat, generatedReport, app>>

ChatExtWorkerMessage ==
    /\ chat.pc = "extract"
    /\ \E i \in DOMAIN ext, throws \in BOOLEAN : ExtWorkerMessage(i, throws)
    /\ UNCHANGED <<cw, gen, chat, generatedReport, app>>

\* Promise.all settled: parts is built and callWithRetry is entered (a rejection
\* of Promise.all is caught by sendMessage's catch)
ChatAssemble ==
    /\ chat.pc = "extract"
    /\ AllSettled(ext)
    /\ IF AnyRejected(ext)
       THEN /\ TurnStep(ChatCatch(chat, NewError(<<"file could not be read">>)))
            /\ cw' = cw
       ELSE /\ TurnStep(ChatAssembled(chat, ext))
            /\ cw' = CwBegin(DefaultRetries)
    /\ UNCHANGED <<ext, gen>>

\* this.chat.sendMessageStream({ message: parts }) settles
ChatSend(errors) ==
    /\ chat.pc = "send"
    /\ cw.pc = "try"
    /\ \E o \in {Resolved("stream")} \cup {Rejected(e) : e \in errors} :
          /\ cw' = CwInvoke(cw, o)
          /\ LET c == LogSent(chat, chat.parts, o.ok)
             IN  TurnStep(IF cw'.pc = "returned" THEN [c EXCEPT !.pc = "reply"]
                          ELSE IF cw'.pc = "thrown" THEN ChatCatch(c, cw'.error)
                          ELSE c)
    /\ UNCHANGED <<ext, gen>>

\* The backoff timer of either callWithRetry fires
ChatWake ==
    /\ chat.pc \in {"send", "ack"}
    /\ cw.pc = "sleep"
    /\ cw' = CwWake(cw)
    /\ TurnStep(IF cw'.pc = "thrown" THEN ChatCatch(chat, cw'.error) ELSE chat)
    /\ UNCHANGED <<ext, gen>>

\* The reply stream yields a chunk; the callback it is passed to may throw
ChatChunk(chunks) ==
    /\ chat.pc = "reply"
    /\ Len(chat.chunks) < MaxChunks
    /\ \E chunk \in chunks, throws \in BOOLEAN :
          /\ throws => chunk.text # <<>>
          /\ TurnStep(IF throws THEN ChatCatch(ChatOnChunk(chat, chunk), CallbackError)
                      ELSE ChatOnChunk(chat, chunk))
    /\ UNCHANGED <<cw, ext, gen>>

\* The reply stream ends: the tool call is recognised, or sendMessage returns
ChatReplyEnds ==
    /\ chat.pc = "reply"
    /\ TurnStep(ChatReplyEnd(chat))
    /\ cw' = IF chat'.pc = "ack" THEN CwBegin(DefaultRetries) ELSE cw
    /\ UNCHANGED <<ext, gen>>

\* The reply stream throws while it is iterated
ChatReplyThrows(errors) ==
    /\ chat.pc = "reply"
    /\ \E e \in errors : TurnStep(ChatCatch(chat, [e EXCEPT !.oid = Len(cw.calls) + 1]))
    /\ UNCHANGED <<cw, ext, gen>>

\* this.chat.sendMessageStream({ message: toolResponseParts }) settles; when it
\* opened a stream the callback is passed "" and may throw
ChatAck(errors) ==
    /\ chat.pc = "ack"
    /\ cw.pc = "try"
    /\ \E o \in {Resolved("stream")} \cup {Rejected(e) : e \in errors}, throws \in BOOLEAN :
          /\ throws => o.ok
          /\ cw' = CwInvoke(cw, o)
          /\ LET c == LogSent(chat, chat.toolResponseParts, o.ok)
             IN  TurnStep(IF cw'.pc = "returned"
                          THEN IF throws THEN ChatCatch(ChatAcked(c), CallbackError)
                               ELSE ChatAcked(c)
                          ELSE IF cw'.pc = "thrown" THEN ChatCatch(c, cw'.error)
                          ELSE c)
    /\ UNCHANGED <<ext, gen>>

\* The stream that follows the acknowledgment yields a chunk
ChatFollowupChunk(chunks) ==
    /\ chat.pc = "followup"
    /\ Len(chat.followup) < MaxChunks
    /\ \E chunk \in chunks, throws \in BOOLEAN :
          /\ throws => chunk.text # <<>>
          /\ TurnStep(IF throws THEN ChatCatch(ChatOnFollowup(chat, chunk), CallbackError)
                      ELSE ChatOnFollowup(chat, chunk))
    /\ UNCHANGED <<cw, ext, gen>>

\* The stream that follows the acknowledgment ends; sendMessage returns
ChatFollowupEnds ==
    /\ chat.pc = "followup"
    /\ TurnStep(ChatFollowupEnd(chat))
    /\ UNCHANGED <<cw, ext, gen>>

\* The stream that follows the acknowledgment throws while it is iterated
ChatFollowupThrows(errors) ==
    /\ chat.pc = "followup"
    /\ \E e \in errors : TurnStep(ChatCatch(chat, [e EXCEPT !.oid = Len(cw.calls) + 1]))
    /\ UNCHANGED <<cw, ext, gen>>

(* SpecChat: one turn without attachments of a freshly constructed        *)
(* assistant, its two response streams explored in full                   *)

ReportV1 == <<"# Report v1">>
ReportV2 == <<"# Report v2">>
ReportV3 == <<"# Report v3">>

CallUpdate2 == MkCall("updateReport", ReportV2, "call-1")
CallUpdate3 == MkCall("updateReport", ReportV3, "call-2")
CallOther == MkCall("searchWeb", <<>>, "call-3")
\* updateReport({ newContent: "" })
CallUpdateEmpty == MkCall("updateReport", <<>>, "call-4")

\* The chunks a reply is made of: text, one call, several calls, an unknown tool
ReplyChunks ==
    { MkChatChunk(<<"Let me update the report. ">>, <<>>),
      MkChatChunk(<<>>, <<CallUpdate2>>),
      MkChatChunk(<<"Updating. ">>, <<CallUpdate3, CallUpdate2>>),
      MkChatChunk(<<>>, <<CallOther>>) }

\* The chunks of the stream that follows an acknowledgment
FollowupChunks ==
    { MkChatChunk(<<"The report now has the new figures. ">>, <<>>),
      MkChatChunk(<<>>, <<>>) }

ChatErrors ==
    { MkError(429, 0, 0, "", <<"Too Many Requests">>, <<>>, ""),
      MkError(400, 0, 0, "", <<"API key not valid", ". Please pass a valid API key.">>, <<>>, ""),
      MkError(400, 0, 0, "INVALID_ARGUMENT", <<"Bad Request">>, <<>>, ""),
      MkError(0, 0, 0, "", <<"xitong", " weihu zhong">>, <<>>, ""),
      MkError(0, 0, 0, "", <<>>, <<>>, "") }

ChatMessages == {<<"Please add the 2024 figures">>}

ChatInit == ChatStart({ReportV1}, ChatMessages, {<<>>})

ChatNext ==
    \/ ChatSend(ChatErrors)
    \/ ChatWake
    \/ ChatChunk(ReplyChunks)
    \/ ChatReplyEnds
    \/ ChatReplyThrows(ChatErrors)
    \/ ChatAck(ChatErrors)
    \/ ChatFollowupChunk(FollowupChunks)
    \/ ChatFollowupEnds
    \/ ChatFollowupThrows(ChatErrors)

SpecChat == ChatInit /\ [][ChatNext]_vars

(* SpecChatAssemble: one turn of a freshly constructed assistant, its      *)
(* attachments explored in full                                            *)

ChatAssembleFileLists == ListsUpTo({FilePng, FileXlsx, FileZip}, MaxFiles)

ChatAssembleReplies == { MkChatChunk(<<>>, <<CallUpdate2>>) }
ChatAssembleFollowups == { MkChatChunk(<<"Done. ">>, <<>>) }

ChatAssembleErrors == AssembleErrors \cup { MkError(0, 0, 0, "", <<>>, <<>>, "") }

ChatAssembleInit == ChatStart({ReportV1}, ChatMessages, ChatAssembleFileLists)

ChatAssembleNext ==
    \/ ChatExtRead
    \/ ChatExtWorkerError
    \/ ChatExtWorkerMessage
    \/ ChatAssemble
    \/ ChatSend(ChatAssembleErrors)
    \/ ChatWake
    \/ ChatChunk(ChatAssembleReplies)
    \/ ChatReplyEnds
    \/ ChatReplyThrows(ChatAssembleErrors)
    \/ ChatAck(ChatAssembleErrors)
    \/ ChatFollowupChunk(ChatAssembleFollowups)
    \/ ChatFollowupEnds
    \/ ChatFollowupThrows(ChatAssembleErrors)

SpecChatAssemble == ChatAssembleInit /\ [][ChatAssembleNext]_vars

(* SpecAdopt: one turn without attachments whose reply calls updateReport  *)
(* with a new document or with an empty one, or calls nothing              *)

AdoptReplies ==
    { MkChatChunk(<<"Updating. ">>, <<>>),
      MkChatChunk(<<>>, <<CallUpdate2>>),
      MkChatChunk(<<>>, <<CallUpdateEmpty>>) }

AdoptInit == ChatStart({ReportV1}, ChatMessages, {<<>>})

AdoptNext ==
    \/ ChatSend(ChatAssembleErrors)
    \/ ChatWake
    \/ ChatChunk(AdoptReplies)
    \/ ChatReplyEnds
    \/ ChatReplyThrows(ChatAssembleErrors)
    \/ ChatAck(ChatAssembleErrors)
    \/ ChatFollowupChunk(ChatAssembleFollowups)
    \/ ChatFollowupEnds
    \/ ChatFollowupThrows(ChatAssembleErrors)

SpecAdopt == AdoptInit /\ [][AdoptNext]_vars

-----
(* SpecRetry: callWithRetry alone, for every `retries` and every sequence  *)
(* of outcomes of the operation.                                           *)

RetryValues == {"r1", "r2"}

RetryInit ==
    /\ cw \in {CwBegin(n) : n \in 0..MaxRetries}
    /\ ext = <<>>
    /\ gen = GenIdle
    /\ chat = ChatIdle
    /\ generatedReport = DraftNull
    /\ app = AppIdle

RetryOutcomes ==
    {Resolved(v) : v \in RetryValues} \cup {Rejected(e) : e \in ErrorSamples}

RetryInvoke ==
    /\ cw.pc = "try"
    /\ \E o \in RetryOutcomes : cw' = CwInvoke(cw, o)
    /\ UNCHANGED <<ext, gen, chat, generatedReport, app>>

RetryWake ==
    /\ cw.pc = "sleep"
    /\ cw' = CwWake(cw)
    /\ UNCHANGED <<ext, gen, chat, generatedReport, app>>

RetryNext == RetryInvoke \/ RetryWake

SpecRetry == RetryInit /\ [][RetryNext]_vars

\* Every invocation of the operation settles and every backoff timer fires.
SpecRetryFair == SpecRetry /\ WF_vars(RetryNext)

-----------------------------------------------------------------------------------------------------------------------------------------------------
(* Claims about callWithRetry (checked under SpecRetry / SpecRetryFair) *)

Failures(c) == {i \in DOMAIN c.calls : ~c.calls[i].ok}

LastCall(c) == c.calls[Len(c.calls)]

\* The error is classified "retryable": it matches a retryable pattern and is
\* not a credential error (the credential test comes first, see C2).
ClassifiedRetryable(e) == IsRetryable(e) /\ ~IsInvalidKey(e)

EveryCallFailedRetryably(c) ==
    /\ c.calls # <<>>
    /\ \A i \in DOMAIN c.calls : ~c.calls[i].ok /\ ClassifiedRetryable(c.calls[i].error)

\* C1 (retry ceiling): for every retries n >= 1, when every invocation of the
\* operation fails with an error classified retryable, callWithRetry ends
\* after exactly n invocations and exactly n-1 backoff waits (it never sleeps
\* after the n-th failure) and throws the quota-exhausted error, a new object
\* that is none of the objects the operation threw.
C1_RetryCeiling ==
    (cw.retries >= 1 /\ EveryCallFailedRetryably(cw)) =>
        /\ Invocations(cw) <= cw.retries
        /\ cw.pc = "sleep" => Invocations(cw) < cw.retries /\ cw.waits = Invocations(cw)
        /\ cw.pc = "try" => cw.waits = Invocations(cw)
        /\ cw.pc # "returned"
        /\ cw.pc = "thrown" =>
              /\ Invocations(cw) = cw.retries
              /\ cw.waits = cw.retries - 1
              /\ cw.error = NewError(QuotaMessage)
              /\ \A i \in DOMAIN cw.calls : cw.error # cw.calls[i].error

C1_Witness ==
    /\ cw.pc = "thrown"
    /\ cw.retries = DefaultRetries
    /\ EveryCallFailedRetryably(cw)
    /\ Invocations(cw) = DefaultRetries
    /\ cw.waits = DefaultRetries - 1

\* C2 (no retry on credential error): when an invocation throws a
\* credential-invalid error, that invocation is the last one, no backoff wait
\* follows it, and callWithRetry throws the credential-invalid error; this
\* holds also when the error matches a retryable pattern.
C2_NoRetryOnCredential ==
    (cw.calls # <<>> /\ ~LastCall(cw).ok /\ IsInvalidKey(LastCall(cw).error)) =>
        /\ cw.pc = "thrown"
        /\ cw.error = NewError(InvalidKeyMessage)
        /\ cw.waits = Invocations(cw) - 1
        /\ \A i \in 1..(Len(cw.calls) - 1) :
              ~cw.calls[i].ok /\ ClassifiedRetryable(cw.calls[i].error)

C2_Witness ==
    /\ cw.pc = "thrown"
    /\ Invocations(cw) = 1
    /\ cw.retries = DefaultRetries
    /\ IsInvalidKey(LastCall(cw).error)
    /\ IsRetryable(LastCall(cw).error)
    /\ cw.waits = 0
    /\ cw.error = NewError(InvalidKeyMessage)

\* C3 (passthrough): when an invocation throws an error that is neither
\* credential-invalid nor retryable, that invocation is the last one, no
\* backoff wait follows it, and callWithRetry throws that very error object.
C3_Passthrough ==
    (/\ cw.calls # <<>>
     /\ ~LastCall(cw).ok
     /\ ~IsInvalidKey(LastCall(cw).error)
     /\ ~IsRetryable(LastCall(cw).error)) =>
        /\ cw.pc = "thrown"
        /\ cw.error = LastCall(cw).error
        /\ cw.error.oid = Invocations(cw)
        /\ cw.waits = Invocations(cw) - 1

C3_Witness ==
    /\ cw.pc = "thrown"
    /\ Invocations(cw) = 2
    /\ cw.retries = DefaultRetries
    /\ ~IsInvalidKey(LastCall(cw).error)
    /\ ~IsRetryable(LastCall(cw).error)
    /\ cw.error = LastCall(cw).error

\* C4 (retries are invisible): for every retries n >= 1, the operation is
\* invoked at most n times; when it fails retryably k-1 times and then
\* succeeds, callWithRetry returns the k-th invocation's value after exactly
\* k invocations; and every activation ends, with a value or with an error.
C4_Safety ==
    /\ Invocations(cw) <= cw.retries
    /\ cw.pc = "returned" =>
          /\ LastCall(cw).ok
          /\ cw.result = LastCall(cw).value
          /\ \A i \in 1..(Len(cw.calls) - 1) :
                ~cw.calls[i].ok /\ ClassifiedRetryable(cw.calls[i].error)
          /\ cw.waits = Invocations(cw) - 1
    /\ (cw.calls # <<>> /\ LastCall(cw).ok) => cw.pc = "returned"
    /\ cw.pc = "thrown" => cw.error # NoError

C4_RetriesInvisible == [](C4_Safety) /\ <>(CwDone(cw))

C4_Witness ==
    /\ cw.pc = "returned"
    /\ cw.retries = DefaultRetries
    /\ Invocations(cw) = DefaultRetries
    /\ cw.result = "r2"

-----------------------------------------------------------------------------
(* Claims about generateReport (checked under SpecGen / SpecAssemble) *)

RECURSIVE ConcatTexts(_)
ConcatTexts(chunks) ==
    IF chunks = <<>> THEN <<>> ELSE Head(chunks).text \o ConcatTexts(Tail(chunks))

CountPiece(text, piece) == Cardinality({i \in DOMAIN text : text[i] = piece})

Last(q) == q[Len(q)]

Rest(text, n) == SubSeq(text, n + 1, Len(text))

C5_Values ==
    /\ \A i \in 1..(Len(gen.emitted) - 1) : IsPrefix(gen.emitted[i], gen.emitted[i + 1])
    /\ \A i \in DOMAIN gen.emitted : IsPrefix(gen.emitted[i], gen.fullText)
    /\ gen.pc = "stream" =>
          generatedReport = IF gen.emitted = <<>> THEN DraftNull ELSE Draft(Last(gen.emitted))
    /\ gen.pc = "returned" =>
          /\ gen.emitted # <<>> => Last(gen.emitted) = gen.result
          /\ generatedReport = Draft(gen.result)
          /\ IsPrefix(ConcatTexts(gen.chunks), gen.result)
          /\ LET appended == Rest(gen.result, Len(ConcatTexts(gen.chunks)))
             IN  /\ appended # <<>> => Head(appended) = SourcesHeader
                 /\ CountPiece(gen.result, SourcesHeader) <= 1

C5_NoRollback ==
    (~generatedReport.isNull) =>
        /\ ~generatedReport'.isNull
        /\ IsPrefix(generatedReport.text, generatedReport'.text)

\* C5 (monotonic streaming): every value generateReport passes to
\* onStreamUpdate has the previously passed value as a prefix; the draft the
\* caller stores from the callback is never replaced by a shorter or
\* different text during the generation; the last value passed equals the
\* returned text, which is the concatenation of the chunk texts followed by
\* at most one sources section.
C5_MonotonicStreaming == [](C5_Values) /\ [][C5_NoRollback]_vars

C5_Witness ==
    /\ gen.pc = "returned"
    /\ Len(gen.emitted) = MaxChunks
    /\ Len(gen.chunks) = MaxChunks
    /\ CountPiece(gen.result, SourcesHeader) = 1
    /\ Len(gen.emitted[1]) < Len(gen.emitted[2])
    /\ generatedReport = Draft(gen.result)

\* The grounding metadata the response ends with: that of the last chunk
\* that carries any
RECURSIVE TerminalMetadata(_)
TerminalMetadata(chunks) ==
    IF chunks = <<>> THEN NoMetadata
    ELSE IF Last(chunks).metadata.present THEN Last(chunks).metadata
    ELSE TerminalMetadata(SubSeq(chunks, 1, Len(chunks) - 1))

RECURSIVE Ascending(_)
Ascending(S) ==
    IF S = {} THEN <<>>
    ELSE LET m == CHOOSE x \in S : \A y \in S : x <= y
         IN  <<m>> \o Ascending(S \ {m})

\* The references to list: for every locator of a reference that has both a
\* title and a uri, its first such reference, in order of appearance
CitedSources(refs) ==
    LET valid == {i \in DOMAIN refs : refs[i].uri # "" /\ refs[i].title # ""}
        first == {i \in valid : \A j \in valid : refs[j].uri = refs[i].uri => i <= j}
        order == Ascending(first)
    IN  [k \in DOMAIN order |-> refs[order[k]]]

\* C6 (grounding sources section): when the grounding metadata the response
\* ends with cites sources, the returned text is the chunk texts followed
\* by exactly one sources section that lists each distinct uri once, in
\* first-seen order; the section is passed to onStreamUpdate exactly once,
\* and only after the last chunk; when no reference has both a title and a
\* uri the returned text is the chunk texts alone.
C6_SourcesSection ==
    /\ gen.pc = "stream" =>
          \A i \in DOMAIN gen.emitted : ~Includes(gen.emitted[i], SourcesHeader)
    /\ gen.pc = "returned" =>
          LET cited == CitedSources(TerminalMetadata(gen.chunks).groundingChunks)
              withHeader == {i \in DOMAIN gen.emitted : Includes(gen.emitted[i], SourcesHeader)}
          IN  IF cited = <<>>
              THEN /\ gen.result = ConcatTexts(gen.chunks)
                   /\ withHeader = {}
              ELSE /\ gen.result = ConcatTexts(gen.chunks) \o SourceText(cited)
                   /\ CountPiece(gen.result, SourcesHeader) = 1
                   /\ \A k \in DOMAIN cited :
                         CountPiece(gen.result, cited[k].uri) = 1
                   /\ withHeader = {Len(gen.emitted)}
                   /\ Last(gen.emitted) = gen.result

C6_Witness ==
    /\ gen.pc = "returned"
    /\ Len(TerminalMetadata(gen.chunks).groundingChunks) > 2
    /\ Len(CitedSources(TerminalMetadata(gen.chunks).groundingChunks)) = 2
    /\ gen.result = ConcatTexts(gen.chunks)
                       \o <<SourcesHeader, "- [", "Title B", "](", "https://b", ")", "\n",
                            "- [", "Title A", "](", "https://a", ")">>

Assembled(g) == g.pc \in {"call", "stream", "returned", "thrown"} /\ g.request # NoRequest

\* C7 (URL implies grounding): the request of generateReport carries the
\* googleSearch tool if and only if useGoogleSearch is set or the URL list is
\* non-empty; otherwise no tool list is attached to the request at all.
C7_UrlImpliesGrounding ==
    Assembled(gen) =>
        LET attached == gen.request.tools
            wanted == gen.useGoogleSearch \/ gen.urls # <<>>
        IN  /\ (attached.defined /\ Includes(attached.list, "googleSearch")) <=> wanted
            /\ ~wanted => (~attached.defined /\ attached.list = <<>>)
            /\ attached.defined => attached.list = <<"googleSearch">>

C7_Witness ==
    /\ Assembled(gen)
    /\ Invocations(cw) >= 1
    /\ ~gen.useGoogleSearch
    /\ Len(gen.urls) = 1
    /\ gen.request.tools = [defined |-> TRUE, list |-> <<"googleSearch">>]

ContainsSeq(text, sub) ==
    \E k \in 0..(Len(text) - Len(sub)) : SubSeq(text, k + 1, k + Len(sub)) = sub

Failed(slot) == slot.fate \in {"read", "worker", "parse"}

\* A diagnostic placeholder naming the file
IsPlaceholderFor(part, file) ==
    /\ part.inlineData = NoInlineData
    /\ Len(part.text) = 3
    /\ part.text[1] \in {"[Error parsing file: ", "[Error processing file: ", "[Error reading file: "}
    /\ part.text[2] = file.name

\* The content extracted from the file: its bytes in base64 under its media
\* type, or its text
IsContentOf(part, file) ==
    IF file.type = "application/pdf" \/ file.major = "image"
    THEN part = MkPart(<<>>, [mimeType |-> file.type, data |-> ArrayBufferToBase64(file.bytes)])
    ELSE /\ part.inlineData = NoInlineData
         /\ Includes(part.text, file.name)
         /\ IF file.suffix = ".docx" THEN ContainsSeq(part.text, ExtractRawText(file.bytes))
            ELSE IF file.suffix \in {".xlsx", ".xls"}
            THEN ContainsSeq(part.text, <<"[Sheet: ", "Sheet1", "]", "a,b", "[Sheet: ", "Sheet3", "]", "c,d">>)
            ELSE IF file.major = "text" THEN ContainsSeq(part.text, Decode(file.bytes))
            ELSE part.text = <<"[Skipped unsupported file: ", file.name, "]">>

\* C8 (extraction isolation): no processFile promise rejects; whatever
\* extractions fail (read error, worker error, parse error), the request has
\* one segment per file after the instruction segment, a failed file's
\* segment is a placeholder text naming that file, every other file's
\* segment is its extracted content, and generateReport does not fail before
\* the remote call is made.
C8_ExtractionIsolation ==
    /\ \A i \in DOMAIN ext : ext[i].pc # "rejected"
    /\ gen.pc = "thrown" => Invocations(cw) >= 1
    /\ (gen.pc = "extract" /\ AllResolved(ext)) => ENABLED GenAssemble
    /\ gen.pc \in {"call", "stream", "returned", "thrown"} =>
          /\ Len(gen.request.parts) = Len(gen.files) + 1
          /\ \A i \in DOMAIN gen.files :
                /\ ext[i].file = gen.files[i]
                /\ IF Failed(ext[i])
                   THEN IsPlaceholderFor(gen.request.parts[i + 1], gen.files[i])
                   ELSE IsContentOf(gen.request.parts[i + 1], gen.files[i])

C8_Witness ==
    /\ gen.pc = "stream"
    /\ Invocations(cw) >= 1
    /\ Len(gen.files) = MaxFiles
    /\ Cardinality({i \in DOMAIN ext : Failed(ext[i])}) = 1
    /\ ext[1].fate = "read"
    /\ gen.request.parts[2] = MkPart(<<"[Error reading file: ", gen.files[1].name, "]">>, NoInlineData)
    /\ gen.files[2] = FileDocx
    /\ IsContentOf(gen.request.parts[3], FileDocx)

-----------------------------------------------------------------------------
(* Claims about ReportAssistant.sendMessage (checked under SpecChat) *)

\* Every function call the reply carried, in order of arrival
RECURSIVE ReplyCalls(_)
ReplyCalls(chunks) ==
    IF chunks = <<>> THEN <<>>
    ELSE Head(chunks).functionCalls \o ReplyCalls(Tail(chunks))

\* The calls of sendMessageStream whose message is a functionResponse
IsAck(entry) ==
    /\ Len(entry.message) = 1
    /\ "functionResponse" \in DOMAIN entry.message[1]

Acks(c) == {i \in DOMAIN c.sent : IsAck(c.sent[i])}

\* The turn ran to its return statement: no remote call of it failed for good
Completed(c) == c.pc = "returned" /\ c.failedAt = ""

OneUpdateReply(c) ==
    /\ Len(ReplyCalls(c.chunks)) = 1
    /\ ReplyCalls(c.chunks)[1].name = "updateReport"

(* C9 -- Tool handshake determinism.  When the reply to a turn carried one *)
(* updateReport invocation with newContent X and id I, and the turn ran to *)
(* its return, then exactly one acknowledgment was accepted on the handle, *)
(* every acknowledgment attempt (an attempt is repeated only by            *)
(* callWithRetry after a transient failure) consisted of the single        *)
(* functionResponse {name updateReport, result "Success", id I}, it was    *)
(* sent after the turn's message, and sendMessage returned updatedReport = *)
(* X with responseText the text received after the acknowledgment, or the  *)
(* fixed default text when that text is empty.                             *)
C9_ToolHandshake ==
    (Completed(chat) /\ OneUpdateReply(chat)) =>
        LET call == ReplyCalls(chat.chunks)[1]
            narration == ConcatTexts(chat.followup)
        IN  /\ Cardinality({i \in Acks(chat) : chat.sent[i].ok}) = 1
            /\ \A i \in Acks(chat) :
                  /\ chat.sent[i].message[1].functionResponse =
                        [name |-> "updateReport",
                         response |-> [result |-> "Success"],
                         id |-> call.id]
                  /\ \E j \in 1..(i - 1) :
                        chat.sent[j].ok /\ chat.sent[j].message = chat.parts
                  /\ ~chat.sent[i].ok => i < Len(chat.sent)
            /\ chat.sent[Len(chat.sent)].ok /\ Len(chat.sent) \in Acks(chat)
            /\ chat.result.updatedReport = Defined(call.newContent)
            /\ chat.result.responseText =
                  IF narration = <<>> THEN DefaultAck ELSE narration

\* A completed turn with a text preamble, one updateReport call, an
\* acknowledgment that was retried once, and no narration after it
C9_Witness ==
    /\ Completed(chat) /\ OneUpdateReply(chat)
    /\ ReplyCalls(chat.chunks)[1] = CallUpdate2
    /\ ConcatTexts(chat.chunks) # <<>>
    /\ Cardinality(Acks(chat)) = 2
    /\ ConcatTexts(chat.followup) = <<>>
    /\ chat.result = MkResult(DefaultAck, Defined(ReportV2))

\* The acknowledgment round trip failed: the second callWithRetry raised, or
\* the stream that follows the acknowledgment threw
AckRoundTripFailed(c) ==
    /\ c.pc = "returned"
    /\ c.failedAt \in {"ack", "followup"}
    /\ c.error # CallbackError

\* The fixed texts sendMessage can answer with in place of the model's words
FixedReplies == {Apology, DefaultAck, QuotaMessage, InvalidKeyMessage}

(* C10 -- Tool-handshake failure keeps the document.  If the model invoked *)
(* updateReport with newContent X and the acknowledgment round trip then   *)
(* failed, sendMessage still returns updatedReport = X, with a fixed       *)
(* fallback text as the reply.                                             *)
C10_FailureKeepsDocument ==
    AckRoundTripFailed(chat) =>
        /\ chat.result.updatedReport = Defined(chat.functionCall.newContent)
        /\ chat.result.responseText \in FixedReplies

\* The follow-up stream threw after the call updateReport(ReportV2) had been
\* extracted and acknowledged; the result carries no document
C10_Witness ==
    /\ AckRoundTripFailed(chat)
    /\ chat.failedAt = "followup"
    /\ chat.functionCall = CallUpdate2
    /\ chat.updatedReport = Defined(ReportV2)
    /\ chat.result = MkResult(Apology, Undefined)

\* The invocation sendMessage recognised in the reply is an updateReport
Recognised(c) == c.functionCall.present /\ c.functionCall.name = "updateReport"

\* The text of the transcript's last message, the reply of the running turn
LastText(a) == a.chatMessages[Len(a.chatMessages)].text

\* What the follow-up narration, or the default text in its place, reads
Narration(c) ==
    IF ConcatTexts(c.followup) = <<>> THEN DefaultAck ELSE ConcatTexts(c.followup)

C12_NeverRaises ==
    /\ chat.pc # "thrown"
    /\ chat.failedAt # "" => (chat.pc = "returned" /\ chat.result.responseText # <<>>)

\* The callback threw on a chunk of a turn one of whose attachments could not
\* be read, and sendMessage returned the apology
C12_Witness ==
    /\ chat.pc = "returned"
    /\ chat.error = CallbackError
    /\ \E i \in DOMAIN ext : ext[i].fate = "read"
    /\ chat.result = MkResult(Apology, Undefined)

(* C13 -- Error conversion in a dialogue turn.  When a callWithRetry of    *)
(* sendMessage raised, responseText is the credential-invalid message if   *)
(* the last error of the remote call was a credential error, the exhausted *)
(* message if it was a retryable one, and otherwise exactly the apology.   *)
C13_ErrorConversion ==
    (chat.pc = "returned" /\ chat.failedAt \in {"send", "ack"}) =>
        chat.result.responseText =
            IF IsInvalidKey(LastCall(cw).error) THEN InvalidKeyMessage
            ELSE IF IsRetryable(LastCall(cw).error) THEN QuotaMessage
            ELSE Apology

\* An unclassified error whose message contains "xitong" became the reply
C13_Witness ==
    /\ chat.pc = "returned" /\ chat.failedAt = "send"
    /\ ~IsInvalidKey(LastCall(cw).error) /\ ~IsRetryable(LastCall(cw).error)
    /\ chat.result.responseText = LastCall(cw).error.message
    /\ chat.result.responseText # <<>>

\* The updateReport invocations of a reply, in order of arrival
UpdateCalls(c) == SelectSeq(ReplyCalls(c.chunks), LAMBDA call : call.name = "updateReport")

(* C14 -- First invocation wins.  In a turn that ran to its return and     *)
(* whose reply carried updateReport invocations, one acknowledgment was    *)
(* accepted, it names the first of them, and the returned updatedReport is *)
(* the newContent of the first.                                            *)
C14_FirstInvocationWins ==
    (Completed(chat) /\ UpdateCalls(chat) # <<>>) =>
        LET first == UpdateCalls(chat)[1]
            accepted == {i \in Acks(chat) : chat.sent[i].ok}
        IN  /\ Cardinality(accepted) = 1
            /\ \A i \in accepted : chat.sent[i].message[1].functionResponse.id = first.id
            /\ chat.result.updatedReport = Defined(first.newContent)

\* Two chunks carried invocations; the one of the later chunk was serviced
C14_Witness ==
    /\ Completed(chat)
    /\ Len(chat.chunks) = 2
    /\ chat.chunks[1].functionCalls = <<CallUpdate2>>
    /\ chat.chunks[2].functionCalls = <<CallUpdate3, CallUpdate2>>
    /\ chat.result.updatedReport = Defined(ReportV3)

\* The pieces of text the reply stream delivered before the tool call
Preamble(c) == {ConcatTexts(c.chunks)[i] : i \in DOMAIN ConcatTexts(c.chunks)}

(* C15 -- Post-tool narration replaces the preamble.  In a turn whose      *)
(* handshake completed, responseText is exactly the text received after    *)
(* the acknowledgment, holds no piece of the text accumulated before it,   *)
(* and is never empty: with no narration it is the default text.           *)
C15_NarrationReplacesPreamble ==
    (Completed(chat) /\ chat.updatedReport.defined) =>
        /\ chat.result.responseText # <<>>
        /\ \A i \in DOMAIN chat.result.responseText :
              chat.result.responseText[i] \notin Preamble(chat)
        /\ chat.result.responseText = Narration(chat)
        /\ ConcatTexts(chat.followup) = <<>> => chat.result.responseText = DefaultAck

\* A completed handshake with a preamble before the call and narration after
C15_Witness ==
    /\ Completed(chat) /\ chat.updatedReport.defined
    /\ Preamble(chat) # {}
    /\ ConcatTexts(chat.followup) # <<>>
    /\ chat.result.responseText = ConcatTexts(chat.followup)

\* The document the session was constructed with
SeedDocument == app.sessions[1]

(* C16 -- Session seeding.  From its construction on, whatever turn runs   *)
(* and whatever document a tool call puts in place, the history the        *)
(* session was created with consists of exactly two turns: a user turn of  *)
(* one text segment that contains the document D the assistant was         *)
(* constructed with, and the fixed acknowledgment of the model.            *)
C16_SessionSeeding ==
    chat.pc # "idle" =>
        /\ Len(chat.history) = 2
        /\ chat.history[1].role = "user"
        /\ Len(chat.history[1].parts) = 1
        /\ chat.history[1].parts[1].inlineData = NoInlineData
        /\ ContainsSeq(chat.history[1].parts[1].text, SeedDocument)
        /\ chat.history[2] = MkTurn("model", SeedReply)

\* A turn replaced the document by another one; the seed still holds the
\* document of the construction and not the new one
C16_Witness ==
    /\ Completed(chat)
    /\ chat.result.updatedReport = Defined(ReportV2)
    /\ generatedReport = Draft(ReportV2)
    /\ SeedDocument = ReportV1
    /\ ContainsSeq(chat.history[1].parts[1].text, ReportV1)
    /\ ~ContainsSeq(chat.history[1].parts[1].text, ReportV2)

(* C17 -- Composition of a turn's segments.  Once the attachments are      *)
(* processed, the message of the user turn has one segment per attachment, *)
(* in the order of the attachments (the content of the file, or the        *)
(* placeholder naming it when its extraction failed), then the user's text *)
(* as the last segment, and nothing else; no segment holds the seed        *)
(* document; and this message is what every call of the turn other than    *)
(* the acknowledgment sends.                                               *)
C17_TurnSegments ==
    (chat.pc \in {"send", "reply", "ack", "followup", "returned"} /\ chat.failedAt # "extract") =>
        /\ Len(chat.parts) = Len(chat.files) + 1
        /\ \A i \in DOMAIN chat.files :
              /\ ext[i].file = chat.files[i]
              /\ IF Failed(ext[i])
                 THEN IsPlaceholderFor(chat.parts[i], chat.files[i])
                 ELSE IsContentOf(chat.parts[i], chat.files[i])
        /\ chat.parts[Len(chat.parts)] = MkPart(chat.message, NoInlineData)
        /\ \A i \in DOMAIN chat.parts :
              /\ ~ContainsSeq(chat.parts[i].text, SeedDocument)
              /\ ~Includes(chat.parts[i].text, SeedPrefix)
        /\ \A k \in DOMAIN chat.sent :
              ~IsAck(chat.sent[k]) => chat.sent[k].message = chat.parts

\* A turn with an image and a spreadsheet whose reading failed was sent
C17_Witness ==
    /\ chat.pc = "reply"
    /\ chat.files = <<FilePng, FileXlsx>>
    /\ ext[2].fate = "read"
    /\ chat.sent = <<[message |-> <<MkPart(<<>>, [mimeType |-> "image/png", data |-> "UE5H"]),
                                    MkPart(<<"[Error reading file: ", "d.xlsx", "]">>, NoInlineData),
                                    MkPart(chat.message, NoInlineData)>>,
                      ok |-> TRUE]>>

-----------------------------------------------------------------------------
(* Claims about failed generations (checked under SpecGen) *)

(* C18 -- Generation failures propagate unchanged.  When the callWithRetry *)
(* of generateReport raised (a credential error, exhausted retries, or an  *)
(* unclassified error rethrown as it is), the error generateReport raises  *)
(* is that same error object, with the same message.                       *)
C18_FailuresPropagateUnchanged ==
    (gen.pc = "thrown" /\ cw.pc = "thrown") => gen.error = cw.error

\* callWithRetry rethrew the unclassified error of its first invocation and
\* generateReport raised a new error with a prefixed message
C18_Witness ==
    /\ gen.pc = "thrown" /\ cw.pc = "thrown"
    /\ cw.error.oid = 1
    /\ cw.error.message = <<"Bad Request">>
    /\ gen.error = NewError(<<"Failed to generate report: ", "Bad Request">>)

(* C19 -- A failed generation leaves no Draft Document.  Whenever          *)
(* generateReport raised, also after chunks had been streamed to the       *)
(* callback, generatedReport is null or empty, assistantRef is null and    *)
(* the error is recorded for display.                                      *)
C19_FailedGenerationLeavesNoDraft ==
    gen.pc = "thrown" =>
        /\ generatedReport.isNull \/ generatedReport.text = <<>>
        /\ app.assistantRef = 0
        /\ app.error # <<>>

\* The stream threw after two chunks had been shown: the text of both is
\* still the current Draft Document
C19_Witness ==
    /\ gen.pc = "thrown"
    /\ Len(gen.chunks) = 2
    /\ generatedReport = Draft(<<"a", "b">>)
    /\ app.assistantRef = 0
    /\ app.error # <<>>
    /\ ~app.isLoading

-----------------------------------------------------------------------------
(* App: generations, greeting timers and dialogue turns interleaved        *)
(*                                                                         *)
(* The service calls are taken as their callers see them: a generateReport *)
(* call streams text to its callback and then returns a report or raises;  *)
(* a sendMessage call streams text to its callback and then returns a      *)
(* result.  app.gens holds the generateReport call handleGenerate awaits,  *)
(* app.turns the sendMessage calls that are awaited, each with the number  *)
(* of the session it was made on and who made it.                          *)

MaxSessions == 2      \* largest number of completed generations
MaxTranscript == 3    \* a message is submitted only to a shorter transcript

MkAppTurn(session, kind) == [session |-> session, kind |-> kind]

Without(seq, i) == SubSeq(seq, 1, i - 1) \o SubSeq(seq, i + 1, Len(seq))

PartialReport == <<"# Repo">>
PartialReply == <<"Hao">>
AppReplies == {MkResult(<<"Hao de.">>, Undefined), MkResult(DefaultAck, Defined(ReportV2))}
GreetingReplies == {MkResult(Greeting.text, Undefined)}
AppErrors == {NewError(<<"Bad Request">>)}

\* The onStreamUpdate callback of the greeting (App.tsx 179-189)
GreetingEmitted(messages, text) ==
    IF Len(messages) > 0 /\ messages[Len(messages)].role = "model"
    THEN [messages EXCEPT ![Len(messages)].text = text]
    ELSE Append(messages, MkMessage("model", text))

\* The "ensure final state" updater of the greeting (App.tsx 193-200)
GreetingFinal(messages, text) ==
    IF Len(messages) > 0 /\ messages[Len(messages)].role = "model"
    THEN [messages EXCEPT ![Len(messages)].text = text]
    ELSE <<MkMessage("model", text)>>

AppInit ==
    /\ app = AppIdle
    /\ generatedReport = DraftNull
    /\ cw = CwIdle
    /\ ext = <<>>
    /\ gen = GenIdle
    /\ chat = ChatIdle

\* The button of handleGenerate is disabled while isLoading
AppGenerate ==
    /\ ~app.crashed
    /\ ~app.isLoading
    /\ Len(app.sessions) < MaxSessions
    /\ app' = [GenerateBegin(app) EXCEPT !.gens = <<[streamed |-> FALSE]>>]
    /\ generatedReport' = DraftNull
    /\ UNCHANGED <<cw, ext, gen, chat>>

\* generateReport calls onStreamUpdate: setGeneratedReport(streamedText)
AppGenerateChunk ==
    /\ ~app.crashed
    /\ app.gens # <<>>
    /\ ~app.gens[1].streamed
    /\ app' = [app EXCEPT !.gens[1].streamed = TRUE]
    /\ generatedReport' = Draft(PartialReport)
    /\ UNCHANGED <<cw, ext, gen, chat>>

AppGenerateReturns(reports) ==
    /\ ~app.crashed
    /\ app.gens # <<>>
    /\ \E report \in reports :
          LET g == [pc |-> "returned", result |-> report, error |-> NoError]
          IN  /\ app' = [GenerateEnd(g, app) EXCEPT !.gens = <<>>]
              /\ generatedReport' = Draft(report)
    /\ UNCHANGED <<cw, ext, gen, chat>>

AppGenerateThrows(errors) ==
    /\ ~app.crashed
    /\ app.gens # <<>>
    /\ \E error \in errors :
          LET g == [pc |-> "thrown", result |-> <<>>, error |-> error]
          IN  app' = [GenerateEnd(g, app) EXCEPT !.gens = <<>>]
    /\ UNCHANGED <<cw, ext, gen, chat, generatedReport>>

\* The timeout of handleGenerate: the greeting is sent on the session
\* assistantRef.current refers to when the timer fires
AppTimerFires ==
    /\ ~app.crashed
    /\ app.timers > 0
    /\ app' = IF app.assistantRef # 0
              THEN [app EXCEPT !.timers = @ - 1,
                               !.turns = Append(@, MkAppTurn(app.assistantRef, "greeting"))]
              ELSE [app EXCEPT !.timers = @ - 1]
    /\ UNCHANGED <<cw, ext, gen, chat, generatedReport>>

\* The button that opens and closes the chat, shown while generatedReport is truthy
AppToggleChat ==
    /\ ~app.crashed
    /\ ~generatedReport.isNull /\ generatedReport.text # <<>>
    /\ app' = [app EXCEPT !.isChatOpen = ~@]
    /\ UNCHANGED <<cw, ext, gen, chat, generatedReport>>

\* handleSubmit of ChatPanel, which is rendered while isOpen and returns
\* while isProcessing, then handleSendMessage up to its await
AppSubmit(messages) ==
    /\ ~app.crashed
    /\ app.isChatOpen
    /\ ~app.isChatProcessing
    /\ Len(app.chatMessages) < MaxTranscript
    /\ \E message \in messages :
          app' = IF app.assistantRef = 0 THEN app
                 ELSE [TurnBegin(app, message, <<>>) EXCEPT
                          !.turns = Append(@, MkAppTurn(app.assistantRef, "user"))]
    /\ UNCHANGED <<cw, ext, gen, chat, generatedReport>>

\* sendMessage calls onStreamUpdate.  The updater of handleSendMessage reads
\* newHistory[lastIdx].role, a TypeError on an empty transcript
AppTurnChunk ==
    /\ ~app.crashed
    /\ \E i \in DOMAIN app.turns :
          app' = IF app.turns[i].kind = "greeting"
                 THEN [app EXCEPT !.chatMessages = GreetingEmitted(@, PartialReply)]
                 ELSE IF app.chatMessages = <<>>
                 THEN [app EXCEPT !.crashed = TRUE]
                 ELSE [app EXCEPT !.chatMessages = SetLastModelText(@, PartialReply)]
    /\ UNCHANGED <<cw, ext, gen, chat, generatedReport>>

\* sendMessage returned to handleSendMessage: the adopted report, the final
\* sync and the finally
AppTurnReturns(results) ==
    /\ ~app.crashed
    /\ \E i \in DOMAIN app.turns, result \in results :
          LET c == [pc |-> "returned", result |-> result]
              a == [app EXCEPT !.turns = Without(@, i)]
          IN  /\ app.turns[i].kind = "user"
              /\ generatedReport' = AdoptReport(c, generatedReport)
              /\ app' = IF app.chatMessages = <<>>
                        THEN [a EXCEPT !.crashed = TRUE, !.isChatProcessing = FALSE]
                        ELSE TurnEnd(c, a)
    /\ UNCHANGED <<cw, ext, gen, chat>>

\* sendMessage returned to the timeout of handleGenerate
AppGreetingReturns(results) ==
    /\ ~app.crashed
    /\ \E i \in DOMAIN app.turns, result \in results :
          /\ app.turns[i].kind = "greeting"
          /\ app' = [app EXCEPT !.turns = Without(@, i),
                                !.chatMessages = GreetingFinal(@, result.responseText),
                                !.isChatOpen = TRUE,
                                !.isChatProcessing = FALSE]
    /\ UNCHANGED <<cw, ext, gen, chat, generatedReport>>

AppNext ==
    \/ AppGenerate
    \/ AppGenerateChunk
    \/ AppGenerateReturns({ReportV1})
    \/ AppGenerateThrows(AppErrors)
    \/ AppTimerFires
    \/ AppToggleChat
    \/ AppSubmit(ChatMessages)
    \/ AppTurnChunk
    \/ AppTurnReturns(AppReplies)
    \/ AppGreetingReturns(GreetingReplies)

SpecApp == AppInit /\ [][AppNext]_vars

\* Every timeout fires and every remote call returns or fails
SpecAppFair ==
    /\ SpecApp
    /\ WF_vars(AppTimerFires)
    /\ WF_vars(AppGenerateReturns({ReportV1}) \/ AppGenerateThrows(AppErrors))
    /\ WF_vars(AppTurnReturns(AppReplies))
    /\ WF_vars(AppGreetingReturns(GreetingReplies))

(* C20 -- No concurrent turns on one session.  In every interleaving of    *)
(* user submissions, greeting turns and repeated generations, no two       *)
(* sendMessage calls are awaited on the same ReportAssistant at once.      *)
C20_NoConcurrentTurns ==
    \A i, j \in DOMAIN app.turns :
        i # j => app.turns[i].session # app.turns[j].session

\* A turn of the user was accepted on the second session while the greeting
\* of that session was still awaited
C20_Witness ==
    /\ ~app.crashed
    /\ app.assistantRef = 2
    /\ app.turns = <<MkAppTurn(2, "greeting"), MkAppTurn(2, "user")>>

(* C21 -- Single writer of the Draft Document.  A sendMessage call made on *)
(* a session other than the one assistantRef refers to (a session of an    *)
(* earlier draft, also while a new generation is running and assistantRef  *)
(* is null) never writes generatedReport when it completes (completions    *)
(* whose state update throws while rendering are left aside).              *)
C21_SingleWriter ==
    [][(\E i \in DOMAIN app.turns :
           /\ app.turns[i].session # app.assistantRef
           /\ app'.turns = Without(app.turns, i)
           /\ ~app'.crashed)
       => generatedReport' = generatedReport]_vars

\* The second generation returned ReportV1 and seeded session 2 with it; no
\* message was submitted since (the transcript, emptied when the generation
\* started, holds the greeting only), and the draft is the updatedReport of a
\* turn of session 1
C21_Witness ==
    /\ ~app.crashed
    /\ app.assistantRef = 2
    /\ app.sessions[2] = ReportV1
    /\ app.turns = <<MkAppTurn(2, "greeting")>>
    /\ Len(app.chatMessages) = 1
    /\ generatedReport = Draft(ReportV2)

(* C22 -- Session lifecycle.  Whenever assistantRef is non-null the        *)
(* generation last started has returned, assistantRef refers to the newest *)
(* session, and that session was constructed with exactly the text the     *)
(* generation returned (with the sources section when there is one), which *)
(* is also the draft; while the generation runs or after it failed,        *)
(* assistantRef is null also when an earlier draft had a session.          *)
C22_SessionLifecycle ==
    /\ app.assistantRef # 0 =>
          /\ gen.pc = "returned"
          /\ app.assistantRef = Len(app.sessions)
          /\ app.sessions[app.assistantRef] = gen.result
          /\ chat = NewAssistant(gen.result)
          /\ generatedReport = Draft(gen.result)
    /\ gen.pc # "returned" => app.assistantRef = 0 /\ chat.pc = "idle"

\* A generation that followed an earlier draft returned a text ending with a
\* sources section, after streaming a different value, and seeded session 2
C22_Witness ==
    /\ gen.pc = "returned"
    /\ app.assistantRef = 2
    /\ app.sessions[1] = EarlierReport
    /\ Len(gen.emitted) >= 2
    /\ gen.emitted[1] # gen.result
    /\ SourceList(gen.metadata) # <<>>
    /\ chat.history[1].parts[1].text = <<SeedPrefix>> \o gen.result

(* C23 -- Append-only transcript.  When a handleSendMessage call finishes, *)
(* the transcript ends with the user message of a turn followed by one     *)
(* model message whose text is the responseText the call returned, and     *)
(* every message before that model message is as it was.                   *)
C23_AppendOnlyTranscript ==
    [][\A i \in DOMAIN app.turns :
          (/\ app.turns[i].kind = "user"
           /\ app'.turns = Without(app.turns, i)
           /\ ~app'.crashed)
          => LET before == app.chatMessages
                 after == app'.chatMessages
                 n == Len(after)
             IN  /\ n = Len(before)
                 /\ n >= 2
                 /\ SubSeq(after, 1, n - 1) = SubSeq(before, 1, n - 1)
                 /\ after[n - 1].role = "user"
                 /\ after[n].role = "model"
                 /\ after[n].text \in {r.responseText : r \in AppReplies}]_vars

\* The transcript of session 2 is one model message, the message of the
\* greeting, and its text is the reply of a turn the user made on session 1
C23_Witness ==
    /\ ~app.crashed
    /\ app.assistantRef = 2
    /\ app.turns = <<>>
    /\ Len(app.chatMessages) = 1
    /\ app.chatMessages[1].role = "model"
    /\ app.chatMessages[1].text \in {r.responseText : r \in AppReplies}

-----------------------------------------------------------------------------
(* Claims about the request of generateReport (checked under SpecAssemble) *)

\* The segment is the Processed Part of the file: its content or its placeholder
IsPartOf(part, file) == IsContentOf(part, file) \/ IsPlaceholderFor(part, file)

(* C24 -- Segment ordering of the generation request.  While the           *)
(* extractions run, in whatever order they complete, the result of each is *)
(* held at the position of its file; the request assembled from them has   *)
(* one segment more than there are files, the first is the instruction     *)
(* text and no other segment is, and segment i+1 is the Processed Part of  *)
(* file i.                                                                 *)
C24_SegmentOrder ==
    /\ \A i \in DOMAIN ext :
          /\ ext[i].file = gen.files[i]
          /\ ext[i].pc = "resolved" => IsPartOf(ToRequestPart(ext[i].part), gen.files[i])
    /\ gen.pc \in {"call", "stream", "returned", "thrown"} =>
          LET parts == gen.request.parts
              prompt == MkPart(SystemPrompt(gen.urls, gen.useGoogleSearch), NoInlineData)
          IN  /\ Len(parts) = Len(gen.files) + 1
              /\ parts[1] = prompt
              /\ \A i \in DOMAIN gen.files :
                    /\ parts[i + 1] # prompt
                    /\ parts[i + 1] = ToRequestPart(ext[i].part)
                    /\ IsPartOf(parts[i + 1], gen.files[i])

\* Two files of different kinds, each in its place after the instruction
\* text, the second one having failed to be read
C24_Witness ==
    /\ gen.pc = "call"
    /\ gen.files = <<FileDocx, FilePng>>
    /\ Len(gen.request.parts) = 3
    /\ Includes(gen.request.parts[1].text, "# Instructions")
    /\ IsContentOf(gen.request.parts[2], FileDocx)
    /\ ext[2].fate = "read"
    /\ IsPlaceholderFor(gen.request.parts[3], FilePng)

-----------------------------------------------------------------------------
(* Claims about the adoption of a turn's result (checked under SpecAdopt,  *)
(* whose turns start from the draft ReportV1)                              *)

(* C25 -- Draft replacement is adopted by the caller and wholesale.  Until *)
(* sendMessage returns the draft is as it was; after a turn that returned  *)
(* updatedReport = X the draft is X, for every X; after a turn that        *)
(* returned no updatedReport the draft is as it was.                       *)
C25_WholesaleAdoption ==
    /\ chat.pc # "returned" => generatedReport = Draft(ReportV1)
    /\ chat.pc = "returned" =>
          IF chat.result.updatedReport.defined
          THEN generatedReport = Draft(chat.result.updatedReport.text)
          ELSE generatedReport = Draft(ReportV1)

\* The model called updateReport with an empty newContent, the turn ran to
\* its return and returned updatedReport = "", and the draft is still ReportV1
C25_Witness ==
    /\ Completed(chat)
    /\ chat.functionCall = CallUpdateEmpty
    /\ chat.result.updatedReport = Defined(<<>>)
    /\ generatedReport = Draft(ReportV1)
    /\ ~app.isChatProcessing

-----------------------------------------------------------------------------
(* Claims about the extractions of a request (checked under                *)
(* SpecExtractFair)                                                        *)

\* How far a processFile promise is
SlotRank(pc) == IF pc = "reading" THEN 0 ELSE IF pc = "posted" THEN 1 ELSE 2

\* No step starts an extraction again or touches a settled one, and the
\* steps of callWithRetry leave the extractions alone
ExtractionsKept ==
    /\ DOMAIN ext' = DOMAIN ext
    /\ \A i \in DOMAIN ext :
          /\ ext'[i].file = ext[i].file
          /\ SlotRank(ext'[i].pc) >= SlotRank(ext[i].pc)
          /\ ext[i].pc = "resolved" => ext'[i] = ext[i]
    /\ cw' # cw => ext' = ext /\ AllResolved(ext)

(* C26 -- Extraction is never retried and does not block the request.      *)
(* Each file's extraction is started once: no step, and no invocation or   *)
(* retry of callWithRetry, starts it again or changes its result once it   *)
(* resolved; and every generateReport call that awaits extractions         *)
(* eventually has a Processed Part for every file and enters the remote    *)
(* call.                                                                   *)
C26_ExtractionOnce ==
    /\ [][ExtractionsKept]_vars
    /\ (gen.pc = "extract") ~> (gen.pc = "call" /\ AllResolved(ext))

\* The remote call was retried after the extractions of two files, one of
\* which failed, and every extraction is as it resolved
C26_Witness ==
    /\ gen.pc \in {"call", "stream"}
    /\ Invocations(cw) >= 2
    /\ Len(ext) = MaxFiles
    /\ AllResolved(ext)
    /\ \E i \in DOMAIN ext : Failed(ext[i])
    /\ \E i \in DOMAIN ext : ext[i].fate = "ok"

-----------------------------------------------------------------------------
(* Claims about the values sendMessage passes to onStreamUpdate (checked   *)
(* under SpecChat)                                                         *)

\* The acknowledgment of the turn was accepted by the handle
AckAccepted(c) == \E i \in Acks(c) : c.sent[i].ok

\* The positions of the empty values among those passed to the callback
Cleared(c) == {k \in DOMAIN c.emitted : c.emitted[k] = <<>>}

(* C27 as stated -- every value passed to onStreamUpdate has the value     *)
(* passed before it as a prefix, and the last value passed in a turn that  *)
(* ran to its return is the returned responseText.                         *)
C27_CompleteSoFar ==
    /\ \A k \in 1..(Len(chat.emitted) - 1) : IsPrefix(chat.emitted[k], chat.emitted[k + 1])
    /\ (Completed(chat) /\ chat.emitted # <<>>) =>
          Last(chat.emitted) = chat.result.responseText

(* C27 amended -- every value passed to onStreamUpdate is the accumulated  *)
(* text of the response stream being read.  The values of the first        *)
(* response each extend the one before and are prefixes of its text; once  *)
(* an acknowledgment has been accepted, and only then, one empty value is  *)
(* passed, and the values after it each extend the one before and are      *)
(* prefixes of the follow-up text.  While the turn runs the last value     *)
(* passed is the accumulator; in a turn that ran to its return it is the   *)
(* returned responseText, unless the follow-up carried no text: then it is *)
(* the empty value and responseText is the default text.                   *)
C27_CompleteSoFarPerStream ==
    LET e == chat.emitted
    IN  /\ Cardinality(Cleared(chat)) <= 1
        /\ Cleared(chat) # {} <=> AckAccepted(chat)
        /\ \A k \in 1..(Len(e) - 1) : e[k + 1] = <<>> \/ IsPrefix(e[k], e[k + 1])
        /\ \A k \in DOMAIN e :
              IF \E j \in Cleared(chat) : j <= k
              THEN IsPrefix(e[k], ConcatTexts(chat.followup))
              ELSE e[k] # <<>> /\ IsPrefix(e[k], ConcatTexts(chat.chunks))
        /\ (e # <<>> /\ chat.pc \in {"reply", "ack", "followup"}) =>
              Last(e) = chat.responseText
        /\ (Completed(chat) /\ e # <<>>) =>
              \/ Last(e) = chat.result.responseText
              \/ Last(e) = <<>> /\ chat.result.responseText = DefaultAck

\* A tool turn ran to its return: two values of the preamble, the second
\* extending the first, the empty value, and the narration, which is returned
C27_Witness ==
    /\ Completed(chat) /\ Recognised(chat)
    /\ Len(chat.emitted) = 4
    /\ chat.emitted[1] # <<>>
    /\ Len(chat.emitted[2]) > Len(chat.emitted[1])
    /\ chat.emitted[3] = <<>>
    /\ chat.emitted[4] = ConcatTexts(chat.followup)
    /\ chat.emitted[4] # <<>>
    /\ chat.result.responseText = chat.emitted[4]

(* C28 -- Acknowledgment protocol order.  An acknowledgment is sent only   *)
(* after the first response stream was opened and read to its end: while   *)
(* that stream is read none has been sent, and no chunk of it arrives      *)
(* after one was.  One is sent if and only if the call serviced at the end *)
(* of the stream is named updateReport.  At most one is accepted, and it   *)
(* is the last message of the turn; a send is repeated only after one that *)
(* failed (by callWithRetry), with the same functionResponse.  When the    *)
(* serviced call has another name, the turn that ran to its return sent no *)
(* acknowledgment and returned no updatedReport and the text accumulated   *)
(* from the first response.                                                *)
C28_AckState ==
    /\ chat.pc \in {"ready", "extract", "send", "reply"} => Acks(chat) = {}
    /\ Acks(chat) # {} => Recognised(chat)
    /\ (Recognised(chat) /\ (chat.pc = "followup" \/ Completed(chat))) =>
          \E i \in Acks(chat) : chat.sent[i].ok
    /\ Cardinality({i \in Acks(chat) : chat.sent[i].ok}) <= 1
    /\ \A i \in Acks(chat) :
          /\ chat.sent[i].message = ToolResponseParts(chat.functionCall)
          /\ \E j \in 1..(i - 1) : ~IsAck(chat.sent[j]) /\ chat.sent[j].ok
          /\ \A j \in (i + 1)..Len(chat.sent) : IsAck(chat.sent[j]) /\ ~chat.sent[i].ok
    /\ (Completed(chat) /\ chat.functionCall.present /\ ~Recognised(chat)) =>
          /\ Acks(chat) = {}
          /\ chat.result = MkResult(ConcatTexts(chat.chunks), Undefined)

\* C28: the state of the protocol at every moment, and no chunk of the
\* first response after an acknowledgment was sent
C28_AckOrder ==
    [](C28_AckState) /\ [][Acks(chat') # {} => chat'.chunks = chat.chunks]_vars

\* The reply carried text and a call of a tool other than updateReport; the
\* turn ran to its return without an acknowledgment
C28_Witness ==
    /\ Completed(chat)
    /\ chat.functionCall = CallOther
    /\ Len(chat.sent) = 1
    /\ Acks(chat) = {}
    /\ chat.result.updatedReport = Undefined
    /\ chat.result.responseText = ConcatTexts(chat.chunks)
    /\ chat.result.responseText # <<>>

-----------------------------------------------------------------------------
(* Claims about a stream that fails while it is read (checked under        *)
(* SpecGen)                                                                *)

\* generateReport holds the stream callWithRetry returned
StreamOpened == cw.pc = "returned" /\ gen.pc \in {"stream", "returned", "thrown"}

\* The stream threw while generateReport iterated it
StreamFailed == cw.pc = "returned" /\ gen.pc = "thrown"

C29_State ==
    /\ gen.pc \in {"stream", "returned"} => cw.pc = "returned"
    /\ StreamOpened =>
          /\ Last(cw.calls).ok
          /\ Cardinality({i \in DOMAIN cw.calls : cw.calls[i].ok}) = 1
    /\ (gen.pc = "stream" \/ StreamFailed) => gen.fullText = ConcatTexts(gen.chunks)
    /\ (StreamFailed /\ gen.emitted # <<>>) =>
          /\ Last(gen.emitted) = ConcatTexts(gen.chunks)
          /\ generatedReport = Draft(Last(gen.emitted))

C29_Step ==
    StreamOpened => /\ cw' = cw
                    /\ IsPrefix(gen.fullText, gen'.fullText)
                    /\ IsPrefix(gen.emitted, gen'.emitted)

-----------------------------------------------------------------------------
(* Claims about the busy flag of the chat (checked under SpecAppFair)      *)

\* A sendMessage call is awaited on the session assistantRef refers to
TurnOnActiveSession ==
    \E i \in DOMAIN app.turns : app.turns[i].session = app.assistantRef

(* C30 -- The chat-busy flag is always released.  isChatProcessing is true *)
(* whenever a sendMessage call is awaited on the active session; and       *)
(* whenever it is true it eventually becomes false again (or App has       *)
(* stopped rendering), given that every timeout fires and every remote     *)
(* call returns or fails.                                                  *)
C30_BusyFlagReleased ==
    /\ [](TurnOnActiveSession => app.isChatProcessing)
    /\ app.isChatProcessing ~> (~app.isChatProcessing \/ app.crashed)

\* A generation set the flag; the next one started before the timeout ran,
\* so the timeout found no assistant, and then failed: the flag is set,
\* nothing is pending that would clear it, and the error is shown
C30_Witness ==
    /\ ~app.crashed
    /\ app.isChatProcessing
    /\ app.turns = <<>> /\ app.timers = 0 /\ app.gens = <<>>
    /\ app.assistantRef = 0
    /\ app.error # <<>>

====
